---- MODULE Spec2Model ----
(***************************************************************************)
(* WaveEye preprocessing: the signal-name normalizer, the Connection Map   *)
(* builder and the value resolver / table assembler of                     *)
(* Preprocessing/mapping/mapping.py; the graph builder and the checks of   *)
(* Preprocessing/rtl; the table merge of merge_map_signals.py; the user    *)
(* registry of Preprocessing/vcd/file_manager.py.                          *)
(*                                                                         *)
(* Strings are sequences of one-character strings, so that the regular     *)
(* expressions, split(), endswith(), strip() and lower() of the source are *)
(* computed character by character.                                        *)
(***************************************************************************)
EXTENDS Integers, Sequences, FiniteSets, TLC

VARIABLES
    pc,             \* position of the running program
    name,           \* normalize: the argument
    once,           \* normalize(name)
    twice,          \* normalize(normalize(name))
    metadata_map,   \* build_table: sequence of <<signal, class>> in dict order
    clock_signals,  \* build_table: sequence of clock signal names
    headers,        \* fieldnames of the waveform CSV, in column order
    waveform,       \* sequence of Sampled Rows; a row is the sequence of its values, by column
    system,         \* classify_system: analyze_system's result, its "connections" list
    connectivity,   \* the connectivity JSON classify_system writes and mapping loads, or None
    conn_map,       \* build_connection_map's result: key |-> the elements of list(set(...))
    conn_order,     \* signal |-> the order in which conn_map[signal] is iterated
    signal_map,     \* build_table: match_waveform_signals' dict, as its items <<wf_sig, meta_sig>>
    clock_column,   \* build_table: <<the clock column>>, <<>> for None
    rows,           \* build_table: the list `rows` of dicts e, each a sequence of <<column, value>>
    filled_signals, \* build_table: the list of (meta_sig, connected_name)
    table,          \* the written output: [class_row, header, data], or None
    tool,           \* the main program that runs: "classify_system" or "check_system"
    rtl_files,      \* the files named on the command line, each the sequence of its lines
    flattened,      \* main: flatten_connections' result
    missing,        \* main: detect_missing_connections' result
    all_mismatches, \* check_system's main: the width mismatches of all files
    scan_lines,     \* detect_instantiations: the argument rtl_lines
    scan_index,     \* detect_instantiations: the loop index i (1-based)
    instantiations, \* detect_instantiations: the list `instantiations`
    mapped_files,   \* merge_all: the tables of `files`, each [class_row, header_row, data_rows]
    merge_pos,      \* merge_all: how many of the files are merged
    merged_table,   \* merge_all: class_row, header_row and data_rows so far
    out_file,       \* merge_all: the rows written to out_file, or None
    registry,       \* user_registry.json: [exists, content], content <<>> or <<next_user_id>>
    user_pc,        \* get_or_create_user: the position of each pipeline run
    user_registry,  \* get_or_create_user: each run's local `registry`
    user_ids        \* get_or_create_user: <<run, user_id>> of every return, in order

normVars == <<name, once, twice>>
inVars == <<metadata_map, clock_signals, headers, waveform>>
graphVars == <<system, connectivity>>
setupVars == <<conn_map, conn_order, signal_map, clock_column>>
outVars == <<rows, filled_signals, table>>
sysVars == <<tool, rtl_files, flattened, missing, all_mismatches>>
scanVars == <<scan_lines, scan_index, instantiations>>
mergeVars == <<mapped_files, merge_pos, merged_table, out_file>>
userVars == <<registry, user_pc, user_registry, user_ids>>
extVars == <<scanVars, mergeVars, userVars>>
vars == <<pc, name, once, twice, metadata_map, clock_signals, headers, waveform,
          system, connectivity, conn_map, conn_order, signal_map, clock_column,
          rows, filled_signals, table, tool, rtl_files, flattened, missing, all_mismatches,
          scan_lines, scan_index, instantiations, mapped_files, merge_pos, merged_table,
          out_file, registry, user_pc, user_registry, user_ids>>

\* Python's None, where a dict is expected
None == [none |-> TRUE]

(***************************************************************************)
(* Bounds of the model.                                                    *)
(***************************************************************************)
MaxFrags == 4   \* a normalize argument is built of at most this many fragments
MaxRows == 2    \* Sampled Rows of a waveform
MaxConns == 2   \* direct Connections of a connectivity graph

(***************************************************************************)
(* Characters and strings.                                                 *)
(***************************************************************************)
Upper == <<"A", "B", "C", "D", "E", "F", "G", "H", "I", "J", "K", "L", "M",
           "N", "O", "P", "Q", "R", "S", "T", "U", "V", "W", "X", "Y", "Z">>
LowerCase == <<"a", "b", "c", "d", "e", "f", "g", "h", "i", "j", "k", "l", "m",
               "n", "o", "p", "q", "r", "s", "t", "u", "v", "w", "x", "y", "z">>

\* the lower-case letter of each upper-case letter
ToLower ==
    [c \in {Upper[i] : i \in 1..Len(Upper)} |->
        LowerCase[CHOOSE i \in 1..Len(Upper) : Upper[i] = c]]

\* str.lower() on one character
lower_char(c) == IF c \in DOMAIN ToLower THEN ToLower[c] ELSE c

\* str.lower()
lower(s) == [i \in 1..Len(s) |-> lower_char(s[i])]

\* s[i:] with a 1-based i
Drop(s, i) == SubSeq(s, i, Len(s))

\* s.startswith(p)
startswith(s, p) == Len(s) >= Len(p) /\ SubSeq(s, 1, Len(p)) = p

\* s.endswith(p)
endswith(s, p) == Len(s) >= Len(p) /\ SubSeq(s, Len(s) - Len(p) + 1, Len(s)) = p

\* the position of the first c in s at or after position i, 0 when there is none
Find(s, c, i) ==
    LET hits == {k \in i..Len(s) : s[k] = c}
    IN  IF hits = {} THEN 0 ELSE CHOOSE k \in hits : \A j \in hits : k <= j

\* the position of the last c in s, 0 when there is none
RECURSIVE FindLast(_, _, _)
FindLast(s, c, i) ==
    IF i < 1 THEN 0
    ELSE IF s[i] = c THEN i
    ELSE FindLast(s, c, i - 1)

\* re.sub(r'^[^.]*\.SEG\.', '', s): [^.]* can only end at the first dot of s
sub_leading_segment(s, seg) ==
    LET k == Find(s, ".", 1)
        pat == <<".">> \o seg \o <<".">>
    IN  IF k > 0 /\ startswith(Drop(s, k), pat)
        THEN Drop(s, k + Len(pat))
        ELSE s

\* re.sub(r'^top\.', '', s)
sub_leading_top(s) ==
    IF startswith(s, <<"t", "o", "p", ".">>) THEN Drop(s, 5) ELSE s

\* re.sub(r"\[.*?\]", "", s): leftmost '[' that has a ']' after it, up to the
\* first such ']', removed; the scan goes on after the ']'
RECURSIVE sub_array_index(_, _)
sub_array_index(s, i) ==
    IF i > Len(s) THEN <<>>
    ELSE IF s[i] = "[" /\ Find(s, "]", i + 1) > 0
         THEN sub_array_index(s, Find(s, "]", i + 1) + 1)
         ELSE <<s[i]>> \o sub_array_index(s, i + 1)

\* a normalize that keeps the array index (the mutant of C8)
normalize_keeps_index(n) ==
    lower(sub_leading_top(sub_leading_segment(
        sub_leading_segment(n, <<"d", "u", "t">>), <<"t", "b">>)))

\* normalize(name)
normalize(n) ==
    lower(sub_array_index(sub_leading_top(sub_leading_segment(
        sub_leading_segment(n, <<"d", "u", "t">>), <<"t", "b">>)), 1))

(***************************************************************************)
(* The arguments normalize is applied to: concatenations of at most        *)
(* MaxFrags fragments, and the names of the docstring.                     *)
(***************************************************************************)
Fragments ==
    { <<"a">>, <<"B">>, <<".", "d", "u", "t", ".">>, <<".", "t", "b", ".">>,
      <<"t", "o", "p", ".">>, <<"T", "O", "P", ".">>, <<"[", "1", "]">> }

RECURSIVE Concat(_)
Concat(fs) == IF fs = <<>> THEN <<>> ELSE Head(fs) \o Concat(Tail(fs))

FragNames == { Concat(fs) : fs \in UNION { [1..n -> Fragments] : n \in 0..MaxFrags } }

soc_tb_dut_uart_busy ==
    <<"s", "o", "c", "_", "t", "b", ".", "d", "u", "t", ".",
      "u", "a", "r", "t", "_", "b", "u", "s", "y">>
uart_busy == <<"u", "a", "r", "t", "_", "b", "u", "s", "y">>
reg0_31_0 == <<"r", "e", "g", "0", "[", "3", "1", ":", "0", "]">>
reg0 == <<"r", "e", "g", "0">>

DocNames == { soc_tb_dut_uart_busy, reg0_31_0 }

(***************************************************************************)
(* The table builder is idle while normalize is exercised.                 *)
(***************************************************************************)
TableIdle ==
    /\ metadata_map = <<>>
    /\ clock_signals = <<>>
    /\ headers = <<>>
    /\ waveform = <<>>
    /\ signal_map = <<>>
    /\ clock_column = <<>>
    /\ rows = <<>>
    /\ filled_signals = <<>>
    /\ table = None

GraphIdle ==
    /\ system = None
    /\ connectivity = None
    /\ conn_map = <<>>
    /\ conn_order = <<>>

NormIdle == name = <<>> /\ once = <<>> /\ twice = <<>>

\* no main program of the graph builder runs
SysIdle ==
    /\ tool = "none"
    /\ rtl_files = <<>>
    /\ flattened = <<>>
    /\ missing = <<>>
    /\ all_mismatches = <<>>

\* no instantiation scan runs
ScanIdle == scan_lines = <<>> /\ scan_index = 0 /\ instantiations = <<>>

\* no merge runs
MergeIdle == mapped_files = <<>> /\ merge_pos = 0 /\ merged_table = None /\ out_file = None

\* no pipeline run asks for a user id
UserIdle == registry = <<>> /\ user_pc = <<>> /\ user_registry = <<>> /\ user_ids = <<>>

ExtIdle == ScanIdle /\ MergeIdle /\ UserIdle

InitNormalize ==
    /\ pc = "norm_start"
    /\ ExtIdle
    /\ name \in FragNames \cup DocNames
    /\ once = <<>>
    /\ twice = <<>>
    /\ TableIdle
    /\ GraphIdle
    /\ SysIdle

\* normalize applied to the argument
Normalize ==
    /\ pc = "norm_start"
    /\ once' = normalize(name)
    /\ pc' = "norm_once"
    /\ UNCHANGED <<name, twice, inVars, graphVars, setupVars, outVars, sysVars, extVars>>

\* normalize applied to its own result
NormalizeAgain ==
    /\ pc = "norm_once"
    /\ twice' = normalize(once)
    /\ pc' = "norm_twice"
    /\ UNCHANGED <<name, once, inVars, graphVars, setupVars, outVars, sysVars, extVars>>

NextNormalize == Normalize \/ NormalizeAgain

SpecNormalize == InitNormalize /\ [][NextNormalize]_vars

(***************************************************************************)
(* Claims about normalize.                                                 *)
(***************************************************************************)

\* C7: normalize is idempotent: normalize(normalize(n)) = normalize(n) for
\* every name n, also with several .dut./.tb. segments or an upper-case TOP.
C7_NormalizeIdempotent == pc = "norm_twice" => twice = once

\* s.split('.')
RECURSIVE Components(_)
Components(s) ==
    LET k == Find(s, ".", 1)
    IN  IF k = 0 THEN <<s>>
        ELSE <<SubSeq(s, 1, k - 1)>> \o Components(Drop(s, k + 1))

\* '.'.join(parts)
RECURSIVE Join(_)
Join(parts) ==
    IF Len(parts) = 0 THEN <<>>
    ELSE IF Len(parts) = 1 THEN parts[1]
    ELSE parts[1] \o <<".">> \o Join(Tail(parts))

\* the components left when the leading "<component>.seg." is taken away
WithoutSegment(parts, seg) ==
    IF Len(parts) >= 3 /\ parts[2] = seg THEN SubSeq(parts, 3, Len(parts)) ELSE parts

\* the components left when a leading "top." is taken away
WithoutTop(parts) ==
    IF Len(parts) >= 2 /\ parts[1] = <<"t", "o", "p">> THEN Tail(parts) ELSE parts

\* position i of s lies in an array index "[...]": a '[' at or before it, no ']'
\* between that '[' and i, and a ']' at or after i
InArrayIndex(s, i) ==
    \E j \in 1..i :
        /\ s[j] = "["
        /\ \A m \in (j + 1)..(i - 1) : s[m] # "]"
        /\ \E k \in i..Len(s) : k > j /\ s[k] = "]"

RECURSIVE KeepOutsideIndex(_, _)
KeepOutsideIndex(s, i) ==
    IF i > Len(s) THEN <<>>
    ELSE (IF InArrayIndex(s, i) THEN <<>> ELSE <<s[i]>>) \o KeepOutsideIndex(s, i + 1)

\* the steps as the claim words them: ONE leading segment, ending in .dut. or .tb.
StepsSingleSegment(n) ==
    LET p0 == Components(n)
        p1 == IF WithoutSegment(p0, <<"d", "u", "t">>) # p0
              THEN WithoutSegment(p0, <<"d", "u", "t">>)
              ELSE WithoutSegment(p0, <<"t", "b">>)
    IN  lower(KeepOutsideIndex(Join(WithoutTop(p1)), 1))

\* the steps of the code: a leading .dut. segment, then a leading .tb. segment
StepsBothSegments(n) ==
    LET p1 == WithoutSegment(Components(n), <<"d", "u", "t">>)
        p2 == WithoutSegment(p1, <<"t", "b">>)
    IN  lower(KeepOutsideIndex(Join(WithoutTop(p2)), 1))

\* C8 as stated: normalize(name) is: remove a single leading segment ending in
\* .dut. or .tb., remove a leading top., remove every [...], lowercase.
C8_SingleSegmentSteps == pc = "norm_once" => once = StepsSingleSegment(name)

\* C8 as amended: normalize(name) is: remove a leading segment ending in .dut.,
\* then a leading segment ending in .tb. (both when both are there), remove a
\* leading top., remove every [...], lowercase; soc_tb.dut.uart_busy gives
\* uart_busy and reg0[31:0] gives reg0.
C8_NormalizeSteps ==
    pc = "norm_once" =>
        /\ once = StepsBothSegments(name)
        /\ name = soc_tb_dut_uart_busy => once = uart_busy
        /\ name = reg0_31_0 => once = reg0

\* C8's case: a name with a .dut. segment followed by a .tb. segment, normalized
C8_Witness ==
    /\ pc = "norm_once"
    /\ name = <<"a", ".", "d", "u", "t", ".", "B", ".", "t", "b", ".">>
    /\ once = <<>>

(***************************************************************************)
(* The Connectivity Graph: classify_system.py's flatten_connections and    *)
(* the JSON its main program writes; mapping.py's build_connection_map.    *)
(***************************************************************************)
Digits == {"0", "1", "2", "3", "4", "5", "6", "7", "8", "9"}
Letters == {Upper[i] : i \in 1..Len(Upper)} \cup {LowerCase[i] : i \in 1..Len(LowerCase)}

\* [A-Za-z_]
IsIdentStart(c) == c \in Letters \cup {"_"}

\* \w
IsWordChar(c) == c \in Letters \cup Digits \cup {"_"}

\* the end of the \w* run that starts at position i
RECURSIVE WordEnd(_, _)
WordEnd(s, i) ==
    IF i + 1 <= Len(s) /\ IsWordChar(s[i + 1]) THEN WordEnd(s, i + 1) ELSE i

\* re.findall(r"[A-Za-z_]\w*", expr), scanning from position i
RECURSIVE tokenize_from(_, _)
tokenize_from(expr, i) ==
    IF i > Len(expr) THEN <<>>
    ELSE IF IsIdentStart(expr[i])
         THEN <<SubSeq(expr, i, WordEnd(expr, i))>> \o tokenize_from(expr, WordEnd(expr, i) + 1)
         ELSE tokenize_from(expr, i + 1)

tokenize_signal_expr(expr) == tokenize_from(expr, 1)

Range(f) == {f[i] : i \in DOMAIN f}

\* the elements of a sequence, each once, in the order of their first occurrence
RECURSIVE Distinct(_)
Distinct(q) ==
    IF q = <<>> THEN <<>>
    ELSE LET d == Distinct(SubSeq(q, 1, Len(q) - 1))
         IN  IF q[Len(q)] \in Range(d) THEN d ELSE Append(d, q[Len(q)])

Whitespace == {" ", "\t", "\n", "\r"}

\* str.lstrip()
RECURSIVE lstrip(_)
lstrip(s) == IF s # <<>> /\ Head(s) \in Whitespace THEN lstrip(Tail(s)) ELSE s

\* str.rstrip()
RECURSIVE rstrip(_)
rstrip(s) ==
    IF s # <<>> /\ s[Len(s)] \in Whitespace THEN rstrip(SubSeq(s, 1, Len(s) - 1)) ELSE s

\* str.strip()
strip(s) == rstrip(lstrip(s))

\* e[k] = v on a dict kept as the sequence of its items
dict_set(e, k, v) ==
    IF \E i \in 1..Len(e) : e[i][1] = k
    THEN [i \in 1..Len(e) |-> IF e[i][1] = k THEN <<k, v>> ELSE e[i]]
    ELSE Append(e, <<k, v>>)

\* e[k]
dict_get(e, k) == e[CHOOSE i \in 1..Len(e) : e[i][1] = k][2]

(***************************************************************************)
(* Preprocessing/rtl/classify_system.py and check_system.py: the parsers   *)
(* of the graph builder. A file is the sequence of its lines; its content  *)
(* is the lines, each ended by a newline.                                  *)
(***************************************************************************)
\* s[i:i+len(p)] == p
At(s, i, p) == i >= 1 /\ i + Len(p) - 1 <= Len(s) /\ SubSeq(s, i, i + Len(p) - 1) = p

\* the position of the first occurrence of p in s at or after i, 0 when there is none
FindStr(s, p, i) ==
    LET hits == {k \in i..Len(s) : At(s, k, p)}
    IN  IF hits = {} THEN 0 ELSE CHOOSE k \in hits : \A j \in hits : k <= j

\* p in s
Contains(s, p) == FindStr(s, p, 1) > 0

\* the first position at or after i that holds no whitespace (the end of \s*)
SkipSpace(s, i) ==
    LET stops == {k \in i..Len(s) : s[k] \notin Whitespace}
    IN  IF i > Len(s) THEN i
        ELSE IF stops = {} THEN Len(s) + 1
        ELSE CHOOSE k \in stops : \A j \in stops : k <= j

\* the first position at or after i that holds no \w character (the end of \w*)
SkipWord(s, i) ==
    LET stops == {k \in i..Len(s) : ~IsWordChar(s[k])}
    IN  IF i > Len(s) THEN i
        ELSE IF stops = {} THEN Len(s) + 1
        ELSE CHOOSE k \in stops : \A j \in stops : k <= j

\* sep.join(parts)
RECURSIVE join(_, _)
join(sep, parts) ==
    IF parts = <<>> THEN <<>>
    ELSE IF Len(parts) = 1 THEN parts[1]
    ELSE parts[1] \o sep \o join(sep, Tail(parts))

\* str.splitlines() of a text whose line ends are "\n"
RECURSIVE splitlines(_)
splitlines(s) ==
    IF s = <<>> THEN <<>>
    ELSE IF Find(s, "\n", 1) = 0 THEN <<s>>
    ELSE <<SubSeq(s, 1, Find(s, "\n", 1) - 1)>> \o splitlines(Drop(s, Find(s, "\n", 1) + 1))

\* re.sub(r"//.*", "", s), from position i: a comment runs to the end of its line
RECURSIVE sub_line_comments(_, _)
\* k is the start of the next comment, nl the end of its line
line_comment_cut(s, i, k, nl) ==
    SubSeq(s, i, k - 1) \o (IF nl = 0 THEN <<>> ELSE sub_line_comments(s, nl))

sub_line_comments(s, i) ==
    IF FindStr(s, <<"/", "/">>, i) = 0 THEN Drop(s, i)
    ELSE line_comment_cut(s, i, FindStr(s, <<"/", "/">>, i),
                          Find(s, "\n", FindStr(s, <<"/", "/">>, i)))

\* re.sub(r"/\*.*?\*/", "", s, flags=re.S), from position i
RECURSIVE sub_block_comments(_, _)
\* k is the next "/*" and close the first "*/" after it: an opening without
\* a close stays, and so does all that follows it
block_comment_cut(s, i, k, close) ==
    IF close = 0 THEN Drop(s, i)
    ELSE SubSeq(s, i, k - 1) \o sub_block_comments(s, close + 2)

sub_block_comments(s, i) ==
    IF FindStr(s, <<"/", "*">>, i) = 0 THEN Drop(s, i)
    ELSE block_comment_cut(s, i, FindStr(s, <<"/", "*">>, i),
                           FindStr(s, <<"*", "/">>, FindStr(s, <<"/", "*">>, i) + 2))

\* strip_comments(s)
strip_comments(s) == sub_block_comments(sub_line_comments(s, 1), 1)

\* f.read(): the lines of a file, each ended by a newline
read(file) == join(<<>>, [i \in 1..Len(file) |-> file[i] \o <<"\n">>])

\* [line.rstrip() for line in content.splitlines() if line.strip()]
RECURSIVE non_blank_rstripped(_)
non_blank_rstripped(ls) ==
    IF ls = <<>> THEN <<>>
    ELSE (IF strip(Head(ls)) = <<>> THEN <<>> ELSE <<rstrip(Head(ls))>>)
         \o non_blank_rstripped(Tail(ls))

\* rtl_lines of analyze_system
rtl_lines_of(file) == non_blank_rstripped(splitlines(strip_comments(read(file))))

kw_module == <<"m", "o", "d", "u", "l", "e">>

\* a match of r"\s*module\s+(\w+)" at the start of line, as <<start, end>> of
\* its group, <<0, 0>> when the line does not match. b is the end of \s+ that
\* starts at a, e the end of \w+ that starts at b.
module_group(b, e) == IF e > b THEN <<b, e - 1>> ELSE <<0, 0>>

module_space(line, a, b) ==
    IF b > a THEN module_group(b, SkipWord(line, b)) ELSE <<0, 0>>

module_keyword(line, k) ==
    IF At(line, k, kw_module) THEN module_space(line, k + 6, SkipSpace(line, k + 6))
    ELSE <<0, 0>>

module_match(line) == module_keyword(line, SkipSpace(line, 1))

unknown_module ==
    <<"u", "n", "k", "n", "o", "w", "n", "_", "m", "o", "d", "u", "l", "e">>

\* the body of detect_module_name's loop: line is the stripped line, m its match
RECURSIVE detect_module_name(_)
name_or_next(line, m, rest) ==
    IF m[1] > 0 THEN SubSeq(line, m[1], m[2]) ELSE detect_module_name(rest)

name_of_line(line, rest) == name_or_next(line, module_match(line), rest)

\* detect_module_name(rtl_lines)
detect_module_name(rtl_lines) ==
    IF rtl_lines = <<>> THEN unknown_module
    ELSE name_of_line(strip(strip_comments(Head(rtl_lines))), Tail(rtl_lines))

\* the characters of identifiers, in code point order
CodeOrder ==
    <<"0", "1", "2", "3", "4", "5", "6", "7", "8", "9">> \o Upper \o <<"_">> \o LowerCase

\* the rank of each identifier character in code point order
CodeRank ==
    [c \in {CodeOrder[i] : i \in 1..Len(CodeOrder)} |->
        CHOOSE i \in 1..Len(CodeOrder) : CodeOrder[i] = c]

\* a < b on strings of identifier characters
RECURSIVE str_less(_, _)
str_less(a, b) ==
    IF b = <<>> THEN FALSE
    ELSE IF a = <<>> THEN TRUE
    ELSE IF Head(a) = Head(b) THEN str_less(Tail(a), Tail(b))
    ELSE CodeRank[Head(a)] < CodeRank[Head(b)]

\* sorted(S) of a set of strings
RECURSIVE sorted(_)
sorted(S) ==
    IF S = {} THEN <<>>
    ELSE LET least == CHOOSE x \in S : \A y \in S : x = y \/ str_less(x, y)
         IN  <<least>> \o sorted(S \ {least})

no_match == <<0, 0>>

\* (\w+) at q: <<start, end>> of the word, no_match when q holds no \w character
word_at(t, q) == IF SkipWord(t, q) > q THEN <<q, SkipWord(t, q) - 1>> ELSE no_match

\* the end of \[[^\]]+\] at q: the position after the first ], 0 when q holds
\* no [ or nothing stands between the brackets
range_end(t, q) ==
    IF q <= Len(t) /\ t[q] = "[" /\ Find(t, "]", q + 1) > q + 1
    THEN Find(t, "]", q + 1) + 1
    ELSE 0

\* (?:\[[^\]]+\]\s*)?(\w+) at q, r being range_end(t, q)
declared_after_range(t, q, r) ==
    IF r > 0 THEN word_at(t, SkipSpace(t, r)) ELSE word_at(t, q)

declared(t, q) == declared_after_range(t, q, range_end(t, q))

\* the end of (?:wire|reg|logic|bit) at p, 0 when none of them stands at p
type_end(t, p) ==
    IF At(t, p, <<"w", "i", "r", "e">>) THEN p + 4
    ELSE IF At(t, p, <<"r", "e", "g">>) THEN p + 3
    ELSE IF At(t, p, <<"l", "o", "g", "i", "c">>) THEN p + 5
    ELSE IF At(t, p, <<"b", "i", "t">>) THEN p + 3
    ELSE 0

\* the end of (?:input|output|inout) at i, 0 when none of them stands at i
direction_end(t, i) ==
    IF At(t, i, <<"i", "n", "p", "u", "t">>) THEN i + 5
    ELSE IF At(t, i, <<"o", "u", "t", "p", "u", "t">>) THEN i + 6
    ELSE IF At(t, i, <<"i", "n", "o", "u", "t">>) THEN i + 5
    ELSE 0

\* the first of two attempts of the regex engine that matches
first_match(a, b) == IF a[1] > 0 THEN a ELSE b

\* (?:wire|reg|logic|bit)?\s*(?:\[[^\]]+\]\s*)?(\w+) at p, te being type_end(t, p):
\* the engine takes the type keyword first and gives it up when the rest fails
port_after_type(t, p, te) ==
    IF te > 0 THEN first_match(declared(t, SkipSpace(t, te)), declared(t, p))
    ELSE declared(t, p)

\* \s+ from k to p, then the rest of the port pattern
port_after_space(t, k, p) ==
    IF p > k THEN port_after_type(t, p, type_end(t, p)) ELSE no_match

port_after_direction(t, k) ==
    IF k > 0 THEN port_after_space(t, k, SkipSpace(t, k)) ELSE no_match

\* a match at i of
\* (?:input|output|inout)\s+(?:wire|reg|logic|bit)?\s*(?:\[[^\]]+\]\s*)?(\w+)
port_match(t, i) == port_after_direction(t, direction_end(t, i))

\* re.findall of the port pattern in t, from position i
RECURSIVE ports_from(_, _)
port_or_next(t, i, m) ==
    IF m[1] > 0 THEN <<SubSeq(t, m[1], m[2])>> \o ports_from(t, m[2] + 1)
    ELSE ports_from(t, i + 1)

ports_from(t, i) ==
    IF i > Len(t) THEN <<>> ELSE port_or_next(t, i, port_match(t, i))

\* \b at position i of t
word_boundary(t, i) ==
    (i > 1 /\ i - 1 <= Len(t) /\ IsWordChar(t[i - 1])) # (i <= Len(t) /\ IsWordChar(t[i]))

\* a match at i of \b(?:wire|reg|logic|bit)\b\s*(?:\[[^\]]+\]\s*)?(\w+), te
\* being type_end(t, i)
signal_after_type(t, i, te) ==
    IF te > 0 /\ word_boundary(t, i) /\ word_boundary(t, te)
    THEN declared(t, SkipSpace(t, te))
    ELSE no_match

signal_match(t, i) == signal_after_type(t, i, type_end(t, i))

\* re.findall of the signal pattern in t, from position i
RECURSIVE signals_from(_, _)
signal_or_next(t, i, m) ==
    IF m[1] > 0 THEN <<SubSeq(t, m[1], m[2])>> \o signals_from(t, m[2] + 1)
    ELSE signals_from(t, i + 1)

signals_from(t, i) ==
    IF i > Len(t) THEN <<>> ELSE signal_or_next(t, i, signal_match(t, i))

\* the first loop of detect_ports_and_signals: the lines of the module header,
\* from the module declaration to the first line that holds ");"
RECURSIVE header_lines(_, _)
header_line(line, rest, in_header) ==
    IF in_header
    THEN <<line>> \o (IF Contains(line, <<")", ";">>) THEN <<>> ELSE header_lines(rest, TRUE))
    ELSE header_lines(rest, FALSE)

header_of(line, rest, in_header) ==
    header_line(line, rest, in_header \/ module_match(line)[1] > 0)

header_lines(rtl_lines, in_header) ==
    IF rtl_lines = <<>> THEN <<>>
    ELSE header_of(strip_comments(Head(rtl_lines)), Tail(rtl_lines), in_header)

\* the second loop of detect_ports_and_signals: the signals of all lines
RECURSIVE signals_of(_)
signals_of(rtl_lines) ==
    IF rtl_lines = <<>> THEN <<>>
    ELSE signals_from(strip_comments(Head(rtl_lines)), 1) \o signals_of(Tail(rtl_lines))

\* detect_ports_and_signals(rtl_lines)
detect_ports_and_signals(rtl_lines) ==
    [ports |-> sorted(Range(ports_from(join(<<" ">>, header_lines(rtl_lines, FALSE)), 1))),
     signals |-> sorted(Range(signals_of(rtl_lines)))]

\* the line at which accumulate_until_close stops: the first line after start
\* that holds ");", Len(rtl_lines) + 1 when there is none
RECURSIVE close_index(_, _)
close_index(rtl_lines, i) ==
    IF i > Len(rtl_lines) \/ Contains(rtl_lines[i], <<")", ";">>) THEN i
    ELSE close_index(rtl_lines, i + 1)

\* the block of accumulate_until_close, i being the line at which it stops
block_until(rtl_lines, start_index, i) ==
    join(<<" ">>,
         [k \in 1..((IF i <= Len(rtl_lines) THEN i ELSE Len(rtl_lines)) - start_index + 1) |->
             strip_comments(rtl_lines[start_index + k - 1])])

\* an accumulate_until_close that returns the index it was given, so that the
\* caller's `i += 1` makes no progress past the line before it (the mutant of
\* C22)
accumulate_stuck(rtl_lines, start_index) ==
    [block |-> block_until(rtl_lines, start_index, close_index(rtl_lines, start_index + 1)),
     i |-> start_index - 1]

\* an accumulate_until_close that gives up a block no line closes and returns
\* its first line only (the mutant of C23)
accumulate_closed_only(rtl_lines, start_index) ==
    [block |-> IF close_index(rtl_lines, start_index + 1) > Len(rtl_lines)
               THEN strip_comments(rtl_lines[start_index])
               ELSE block_until(rtl_lines, start_index, close_index(rtl_lines, start_index + 1)),
     i |-> close_index(rtl_lines, start_index + 1)]

\* accumulate_until_close(rtl_lines, start_index), lines counted from 1
accumulate_until_close(rtl_lines, start_index) ==
    [block |-> block_until(rtl_lines, start_index, close_index(rtl_lines, start_index + 1)),
     i |-> close_index(rtl_lines, start_index + 1)]

\* re.findall(r"\.(\w+)\s*\(\s*([^)]+?)\s*\)", port_block) with the second
\* group stripped, from position i. w is the port name after the dot, a the
\* position after \s*, close the first ")" after the "(".
RECURSIVE pairs_from(_, _)
pair_closed(b, i, w, a, close) ==
    IF close > a + 1
    THEN << <<SubSeq(b, w[1], w[2]), strip(SubSeq(b, a + 1, close - 1))>> >>
         \o pairs_from(b, close + 1)
    ELSE pairs_from(b, i + 1)

pair_opened(b, i, w, a) ==
    IF a <= Len(b) /\ b[a] = "(" THEN pair_closed(b, i, w, a, Find(b, ")", a + 1))
    ELSE pairs_from(b, i + 1)

pair_named(b, i, w) ==
    IF w[1] > 0 THEN pair_opened(b, i, w, SkipSpace(b, w[2] + 1)) ELSE pairs_from(b, i + 1)

pairs_from(b, i) ==
    IF Find(b, ".", i) = 0 THEN <<>>
    ELSE pair_named(b, Find(b, ".", i), word_at(b, Find(b, ".", i) + 1))

\* extract_port_pairs(port_block)
extract_port_pairs(port_block) == pairs_from(port_block, 1)

\* {p: s for p, s in pairs}: a later binding of a port replaces the value of
\* the earlier one
RECURSIVE dict_of(_, _)
dict_of(pairs, acc) ==
    IF pairs = <<>> THEN acc
    ELSE dict_of(Tail(pairs), dict_set(acc, Head(pairs)[1], Head(pairs)[2]))

\* the end of re.search(re.escape(inst_name) + r"\s*\(", full_block), from
\* position k: the position after the "(", 0 when there is no match
RECURSIVE m_pos_end(_, _, _)
\* inst_name stands at k, and e is the end of the \s* after it
m_pos_at(full_block, inst_name, k, e) ==
    IF e <= Len(full_block) /\ full_block[e] = "(" THEN e + 1
    ELSE m_pos_end(full_block, inst_name, k + 1)

m_pos_end(full_block, inst_name, k) ==
    IF FindStr(full_block, inst_name, k) = 0 THEN 0
    ELSE m_pos_at(full_block, inst_name, FindStr(full_block, inst_name, k),
                  SkipSpace(full_block, FindStr(full_block, inst_name, k) + Len(inst_name)))

\* port_block = full_block[m_pos.end():] if m_pos else full_block
port_block_at(full_block, e) == IF e > 0 THEN Drop(full_block, e) ELSE full_block

\* the dict appended to instantiations
instantiation(submodule, inst_name, full_block) ==
    [submodule |-> submodule,
     instance |-> inst_name,
     connections |-> dict_of(extract_port_pairs(
                         port_block_at(full_block, m_pos_end(full_block, inst_name, 1))), <<>>)]

no_groups == <<0, 0, 0, 0>>

\* ([A-Za-z_]\w*)\s*\( at b: <<start, end>> of the name
instance_named(line, b, e) ==
    IF SkipSpace(line, e) <= Len(line) /\ line[SkipSpace(line, e)] = "("
    THEN <<b, e - 1>> ELSE no_match

instance_name_at(line, b) ==
    IF b <= Len(line) /\ IsIdentStart(line[b]) THEN instance_named(line, b, SkipWord(line, b))
    ELSE no_match

\* \s+ from a to b, then the instance name
spaced_instance_name(line, a, b) == IF b > a THEN instance_name_at(line, b) ELSE no_match

\* (?:#\([^)]*\))?\s+([A-Za-z_]\w*)\s*\( after the submodule word that ends
\* before e, a being the end of the \s* after it
inline_after_word(line, e, a) ==
    IF At(line, a, <<"#", "(">>) /\ Find(line, ")", a + 2) > 0
    THEN spaced_instance_name(line, Find(line, ")", a + 2) + 1,
                              SkipSpace(line, Find(line, ")", a + 2) + 1))
    ELSE spaced_instance_name(line, e, a)

inline_groups(w, n) == IF n[1] > 0 THEN <<w[1], w[2], n[1], n[2]>> ELSE no_groups

inline_word(line, w) ==
    IF w[1] > 0
    THEN inline_groups(w, inline_after_word(line, w[2] + 1, SkipSpace(line, w[2] + 1)))
    ELSE no_groups

\* re.match(r"\s*(\w+)\s*(?:#\([^)]*\))?\s+([A-Za-z_]\w*)\s*\(", line): the
\* bounds of its two groups, no_groups when the line does not match
m_inline(line) == inline_word(line, word_at(line, SkipSpace(line, 1)))

\* \s*#\s*\( at a
params_open(line, a) ==
    /\ a <= Len(line) /\ line[a] = "#"
    /\ SkipSpace(line, a + 1) <= Len(line) /\ line[SkipSpace(line, a + 1)] = "("

params_word(line, w) ==
    IF w[1] > 0 /\ params_open(line, SkipSpace(line, w[2] + 1)) THEN w ELSE no_match

\* re.match(r"\s*(\w+)\s*#\s*\(", line): the bounds of its group
m_params_start(line) == params_word(line, word_at(line, SkipSpace(line, 1)))

\* re.search(r"\)\s+([A-Za-z_]\w*)\s*\(", candidate), from position k: the
\* bounds of its group
RECURSIVE m_inst(_, _)
inst_or_next(candidate, k, n) ==
    IF n[1] > 0 THEN n ELSE m_inst(candidate, k + 1)

m_inst(candidate, k) ==
    IF Find(candidate, ")", k) = 0 THEN no_match
    ELSE inst_or_next(candidate, Find(candidate, ")", k),
             spaced_instance_name(candidate, Find(candidate, ")", k) + 1,
                                  SkipSpace(candidate, Find(candidate, ")", k) + 1)))

\* the loop `while j < n` of the parameterized branch: <<j, the bounds of the
\* instance name in line j>>, <<0, 0, 0>> when no line names an instance
RECURSIVE inst_line(_, _)
inst_line_or_next(rtl_lines, j, n) ==
    IF n[1] > 0 THEN <<j, n[1], n[2]>> ELSE inst_line(rtl_lines, j + 1)

inst_line(rtl_lines, j) ==
    IF j > Len(rtl_lines) THEN <<0, 0, 0>>
    ELSE inst_line_or_next(rtl_lines, j, m_inst(strip_comments(rtl_lines[j]), 1))

\* One iteration of the loop `while i < n` of detect_instantiations, at line
\* i: the instantiations it appends (`found`), the index it leaves (`i`) and
\* the branch it takes.
\* the inline branch: g are the groups of m_inline, acc what
\* accumulate_until_close(rtl_lines, i) returns
inline_branch(rtl_lines, line, g, acc) ==
    [found |-> <<instantiation(SubSeq(line, g[1], g[2]), SubSeq(line, g[3], g[4]), acc.block)>>,
     i |-> acc.i + 1,
     branch |-> "inline"]

\* the parameterized branch once the instance line f[1] is found
params_found(rtl_lines, submodule, inst_name, acc) ==
    [found |-> <<instantiation(submodule, inst_name, acc.block)>>,
     i |-> acc.i + 1,
     branch |-> "params"]

params_branch(rtl_lines, i, submodule, f) ==
    IF f[1] > 0
    THEN params_found(rtl_lines, submodule,
                      SubSeq(strip_comments(rtl_lines[f[1]]), f[2], f[3]),
                      accumulate_until_close(rtl_lines, f[1]))
    ELSE [found |-> <<>>, i |-> i + 1, branch |-> "params_no_instance"]

not_inline(rtl_lines, i, line, w) ==
    IF w[1] > 0
    THEN params_branch(rtl_lines, i, SubSeq(line, w[1], w[2]), inst_line(rtl_lines, i))
    ELSE [found |-> <<>>, i |-> i + 1, branch |-> "no_match"]

scan_line(rtl_lines, i, line, g) ==
    IF g[1] > 0 THEN inline_branch(rtl_lines, line, g, accumulate_until_close(rtl_lines, i))
    ELSE not_inline(rtl_lines, i, line, m_params_start(line))

scan_at(rtl_lines, i, line) == scan_line(rtl_lines, i, line, m_inline(line))

\* the body of the loop at line i
scan_step(rtl_lines, i) == scan_at(rtl_lines, i, strip_comments(rtl_lines[i]))

\* the scan of detect_instantiations, from line i
RECURSIVE instantiations_from(_, _)
\* the rest of the scan after the iteration `step`
scan_on(rtl_lines, step) == step.found \o instantiations_from(rtl_lines, step.i)

instantiations_from(rtl_lines, i) ==
    IF i > Len(rtl_lines) THEN <<>> ELSE scan_on(rtl_lines, scan_step(rtl_lines, i))

\* detect_instantiations(rtl_lines)
detect_instantiations(rtl_lines) == instantiations_from(rtl_lines, 1)

\* k in e, on a dict kept as the sequence of its items
dict_has(e, k) == \E i \in 1..Len(e) : e[i][1] = k

\* the Connections analyze_system appends for one instantiation, one for each
\* item of inst["connections"]
connections_of(module_name, inst) ==
    [k \in 1..Len(inst.connections) |->
        [parent_module |-> module_name,
         child_module |-> inst.submodule,
         instance |-> inst.instance,
         child_port |-> inst.connections[k][1],
         parent_signal |-> inst.connections[k][2]]]

\* the loop `for inst in insts`
RECURSIVE connections_of_all(_, _)
connections_of_all(module_name, insts) ==
    IF insts = <<>> THEN <<>>
    ELSE connections_of(module_name, Head(insts)) \o connections_of_all(module_name, Tail(insts))

\* an analyze_system that keeps the first entry of a module name (the mutant
\* of C16)
analyzed_first_wins(sys, module_name, info, insts) ==
    [modules |-> IF dict_has(sys.modules, module_name) THEN sys.modules
                 ELSE dict_set(sys.modules, module_name, info),
     connections |-> sys.connections \o connections_of_all(module_name, insts)]

\* system["modules"][module_name] = {...} and the appended Connections
analyzed(sys, module_name, info, insts) ==
    [modules |-> dict_set(sys.modules, module_name, info),
     connections |-> sys.connections \o connections_of_all(module_name, insts)]

\* the body of analyze_system's loop over the files
analyze_lines(sys, rtl_lines) ==
    analyzed(sys, detect_module_name(rtl_lines), detect_ports_and_signals(rtl_lines),
             detect_instantiations(rtl_lines))

\* the loop of analyze_system over files, from the system built so far
RECURSIVE analyze_files(_, _)
analyze_files(sys, files) ==
    IF files = <<>> THEN sys
    ELSE analyze_files(analyze_lines(sys, rtl_lines_of(Head(files))), Tail(files))

\* analyze_system(files)
analyze_system(files) == analyze_files([modules |-> <<>>, connections |-> <<>>], files)


\* by_parent[mod]: the connections of a parent module, in list order
by_parent(conns, mod) ==
    LET OfMod(c) == c.parent_module = mod IN SelectSeq(conns, OfMod)

\* a Flattened Connection that names the inner connection's child module as
\* its via-module (the mutant of C11)
flattened_entry_via_inner(conn, inner) ==
    [from_module |-> conn.parent_module,
     from_signal_expr |-> conn.parent_signal,
     to_module |-> inner.child_module,
     to_signal |-> inner.child_port,
     via_instance |-> conn.instance,
     via_module |-> inner.child_module,
     inner_expr |-> inner.parent_signal]

\* the Flattened Connection of conn and inner
flattened_entry(conn, inner) ==
    [from_module |-> conn.parent_module,
     from_signal_expr |-> conn.parent_signal,
     to_module |-> inner.child_module,
     to_signal |-> inner.child_port,
     via_instance |-> conn.instance,
     via_module |-> conn.child_module,
     inner_expr |-> inner.parent_signal]

\* a flatten_inner that looks for conn's child_port as a substring of the inner
\* parent_signal (the mutant of C25)
RECURSIVE flatten_inner_substring(_, _)
flatten_inner_substring(conn, inners) ==
    IF inners = <<>> THEN <<>>
    ELSE (IF Contains(Head(inners).parent_signal, conn.child_port)
          THEN <<flattened_entry(conn, Head(inners))>>
          ELSE <<>>) \o flatten_inner_substring(conn, Tail(inners))

\* the inner loop of flatten_connections: the inner connections of conn's child
\* module whose parent_signal names conn's child_port
RECURSIVE flatten_inner(_, _)
flatten_inner(conn, inners) ==
    IF inners = <<>> THEN <<>>
    ELSE (IF conn.child_port \in Range(tokenize_signal_expr(Head(inners).parent_signal))
          THEN <<flattened_entry(conn, Head(inners))>>
          ELSE <<>>) \o flatten_inner(conn, Tail(inners))

\* the loop over the connections of one parent module
RECURSIVE flatten_conns(_, _)
flatten_conns(all, conns) ==
    IF conns = <<>> THEN <<>>
    ELSE flatten_inner(Head(conns), by_parent(all, Head(conns).child_module))
         \o flatten_conns(all, Tail(conns))

\* the loop over by_parent.items(), in the order the parent modules first occur
RECURSIVE flatten_parents(_, _)
flatten_parents(all, mods) ==
    IF mods = <<>> THEN <<>>
    ELSE flatten_conns(all, by_parent(all, Head(mods))) \o flatten_parents(all, Tail(mods))

\* flatten_connections(system)
flatten_connections(sys) ==
    flatten_parents(sys.connections,
                    Distinct([i \in 1..Len(sys.connections) |-> sys.connections[i].parent_module]))

\* instances.setdefault(inst, {...}) and instances[inst]["ports"].add(...)
with_instance_port(instances, conn) ==
    IF dict_has(instances, conn.instance)
    THEN dict_set(instances, conn.instance,
                  [submodule |-> dict_get(instances, conn.instance).submodule,
                   ports |-> dict_get(instances, conn.instance).ports \cup {conn.child_port}])
    ELSE Append(instances, <<conn.instance,
                             [submodule |-> conn.child_module, ports |-> {conn.child_port}]>>)

\* the first loop of detect_missing_connections: the dict `instances`
RECURSIVE instances_of(_, _)
instances_of(conns, instances) ==
    IF conns = <<>> THEN instances
    ELSE instances_of(Tail(conns), with_instance_port(instances, Head(conns)))

\* set(module_ports.get(submodule, []))
expected_ports(modules, submodule) ==
    IF dict_has(modules, submodule) THEN Range(dict_get(modules, submodule).ports) ELSE {}

\* a missing-port list that holds every declared port (the mutant of C12)
missing_ports_all_declared(expected, connected) == sorted(expected)

\* sorted(expected - connected)
missing_ports(expected, connected) == sorted(expected \ connected)

\* the issue of one instance, if any
issue_of(inst, submodule, unbound) ==
    IF unbound # <<>>
    THEN <<[instance |-> inst, submodule |-> submodule, missing_ports |-> unbound]>>
    ELSE <<>>

\* the second loop of detect_missing_connections
RECURSIVE issues_of(_, _)
issues_of(modules, instances) ==
    IF instances = <<>> THEN <<>>
    ELSE issue_of(Head(instances)[1], Head(instances)[2].submodule,
                  missing_ports(expected_ports(modules, Head(instances)[2].submodule),
                                Head(instances)[2].ports))
         \o issues_of(modules, Tail(instances))

\* detect_missing_connections(system)
detect_missing_connections(sys) ==
    issues_of(sys.modules, instances_of(sys.connections, <<>>))

(***************************************************************************)
(* check_system.py: the width-mismatch pass.                               *)
(***************************************************************************)
\* the least element of a non-empty set of positions
Least(S) == CHOOSE k \in S : \A j \in S : k <= j

\* re.search and one step of re.findall: the first position at or after i at
\* which Match finds a match, 0 when there is none
FirstWhere(t, i, Match(_, _)) ==
    LET hits == {k \in i..Len(t) : Match(t, k)[1] > 0}
    IN  IF hits = {} THEN 0 ELSE Least(hits)

\* the first position at or after i that holds no digit (the end of \d*)
SkipDigits(t, i) ==
    LET stops == {k \in i..Len(t) : t[k] \notin Digits}
    IN  IF i > Len(t) THEN i
        ELSE IF stops = {} THEN Len(t) + 1
        ELSE Least(stops)

\* int(digits)
RECURSIVE int(_)
int(digits) ==
    IF digits = <<>> THEN 0
    ELSE int(SubSeq(digits, 1, Len(digits) - 1)) * 10 + (CodeRank[digits[Len(digits)]] - 1)

\* abs(v)
abs(v) == IF v < 0 THEN 0 - v ELSE v

\* a width: an int, or the name of a parameter as a str
int_width(n) == <<"int", n>>
str_width(w) == <<"str", w>>

\* isinstance(width, int)
is_int(width) == width[1] = "int"

DeclarationKeywords ==
    {<<"i", "n", "p", "u", "t">>,
     <<"o", "u", "t", "p", "u", "t">>,
     <<"i", "n", "o", "u", "t">>,
     <<"r", "e", "g">>,
     <<"w", "i", "r", "e">>,
     <<"p", "a", "r", "a", "m", "e", "t", "e", "r">>,
     <<"l", "o", "c", "a", "l", "p", "a", "r", "a", "m">>}

\* re.match(r"^(input|output|inout|reg|wire|parameter|localparam)\b", line)
is_declaration(line) ==
    \E kw \in DeclarationKeywords : At(line, 1, kw) /\ word_boundary(line, Len(kw) + 1)

\* \[(\d+)\s*:\s*(\d+)\] at k: the bounds of its two groups. e1 is the end of
\* the first number, c the position of the colon, b the start of the second
\* number and e2 its end.
num_range_closed(t, k, e1, b, e2) ==
    IF e2 > b /\ e2 <= Len(t) /\ t[e2] = "]" THEN <<k + 1, e1 - 1, b, e2 - 1>> ELSE no_groups

num_range_colon(t, k, e1, c) ==
    IF c <= Len(t) /\ t[c] = ":"
    THEN num_range_closed(t, k, e1, SkipSpace(t, c + 1), SkipDigits(t, SkipSpace(t, c + 1)))
    ELSE no_groups

num_range_msb(t, k, e1) ==
    IF e1 > k + 1 THEN num_range_colon(t, k, e1, SkipSpace(t, e1)) ELSE no_groups

num_range_at(t, k) ==
    IF t[k] = "[" THEN num_range_msb(t, k, SkipDigits(t, k + 1)) ELSE no_groups

\* abs(msb - lsb) + 1 of the groups g of a numeric range in t
num_width(t, g) ==
    int_width(abs(int(SubSeq(t, g[1], g[2])) - int(SubSeq(t, g[3], g[4]))) + 1)

\* \s*:\s*0\] at p
param_range_tail(t, p) ==
    /\ SkipSpace(t, p) <= Len(t)
    /\ t[SkipSpace(t, p)] = ":"
    /\ At(t, SkipSpace(t, SkipSpace(t, p) + 1), <<"0", "]">>)

\* the end of \s*-\s*1 at e, 0 when it does not stand there
minus_one_end(t, e) ==
    IF /\ SkipSpace(t, e) <= Len(t) /\ t[SkipSpace(t, e)] = "-"
       /\ SkipSpace(t, SkipSpace(t, e) + 1) <= Len(t)
       /\ t[SkipSpace(t, SkipSpace(t, e) + 1)] = "1"
    THEN SkipSpace(t, SkipSpace(t, e) + 1) + 1
    ELSE 0

\* (?:\s*-\s*1)?\s*:\s*0\] after the word w, m being minus_one_end: the engine
\* takes the optional group first and gives it up when the rest fails
param_range_word(t, w, m) ==
    IF (m > 0 /\ param_range_tail(t, m)) \/ param_range_tail(t, w[2] + 1) THEN w ELSE no_match

param_range_named(t, w) ==
    IF w[1] > 0 THEN param_range_word(t, w, minus_one_end(t, w[2] + 1)) ELSE no_match

\* \[(\w+)(?:\s*-\s*1)?\s*:\s*0\] at k: the bounds of its group
param_range_at(t, k) ==
    IF t[k] = "[" THEN param_range_named(t, word_at(t, k + 1)) ELSE no_match

\* the width a line or an expression t states, fallback when it states none;
\* n is the position of its first numeric range and q that of its first
\* parameterized range
stated_width(t, n, q, fallback) ==
    IF n > 0 THEN num_width(t, num_range_at(t, n))
    ELSE IF q > 0 THEN str_width(SubSeq(t, param_range_at(t, q)[1], param_range_at(t, q)[2]))
    ELSE fallback

\* width of extract_signal_declarations for one line
declared_width(line) ==
    stated_width(line, FirstWhere(line, 1, num_range_at), FirstWhere(line, 1, param_range_at),
                 int_width(1))

\* a \w+ run starts at k
word_start_at(t, k) ==
    IF IsWordChar(t[k]) /\ (k = 1 \/ ~IsWordChar(t[k - 1])) THEN <<k, SkipWord(t, k) - 1>>
    ELSE no_match

\* re.findall(r"\b\w+\b", line), from position i
RECURSIVE words_from(_, _)
words_from(line, i) ==
    IF FirstWhere(line, i, word_start_at) = 0 THEN <<>>
    ELSE <<SubSeq(line, FirstWhere(line, i, word_start_at),
                  SkipWord(line, FirstWhere(line, i, word_start_at)) - 1)>>
         \o words_from(line, SkipWord(line, FirstWhere(line, i, word_start_at)))

\* the loop `for name in names`
RECURSIVE declare_names(_, _, _)
declare_names(decls, names, width) ==
    IF names = <<>> THEN decls
    ELSE declare_names(IF Head(names) \in DeclarationKeywords THEN decls
                       ELSE dict_set(decls, Head(names), width),
                       Tail(names), width)

\* the body of extract_signal_declarations' loop, line being the stripped line
declare_line(decls, line) ==
    IF is_declaration(line) THEN declare_names(decls, words_from(line, 1), declared_width(line))
    ELSE decls

\* the loop of extract_signal_declarations
RECURSIVE declarations_from(_, _)
declarations_from(decls, rtl_lines) ==
    IF rtl_lines = <<>> THEN decls
    ELSE declarations_from(declare_line(decls, strip(Head(rtl_lines))), Tail(rtl_lines))

\* extract_signal_declarations(rtl_lines)
extract_signal_declarations(rtl_lines) == declarations_from(<<>>, rtl_lines)

HexDigits == Digits \cup {"a", "b", "c", "d", "e", "f", "A", "B", "C", "D", "E", "F"}

\* ^\d+'[bhdo][0-9a-fA-F]+$ on a token that ends with no newline, e being the
\* end of its \d+
is_based_literal(token, e) ==
    /\ e > 1
    /\ e + 2 <= Len(token)
    /\ token[e] = "'"
    /\ token[e + 1] \in {"b", "h", "d", "o"}
    /\ \A k \in (e + 2)..Len(token) : token[k] \in HexDigits

\* is_literal(token), as the truth of what it returns
is_literal(token) ==
    \/ (token # <<>> /\ \A k \in 1..Len(token) : token[k] \in Digits)
    \/ is_based_literal(token, SkipDigits(token, 1))

SV_KEYWORDS ==
    {<<"i", "f">>,
     <<"e", "l", "s", "e">>,
     <<"b", "e", "g", "i", "n">>,
     <<"e", "n", "d">>,
     <<"c", "a", "s", "e">>,
     <<"e", "n", "d", "c", "a", "s", "e">>,
     <<"d", "e", "f", "a", "u", "l", "t">>,
     <<"p", "o", "s", "e", "d", "g", "e">>,
     <<"n", "e", "g", "e", "d", "g", "e">>}

\* is_keyword(token)
is_keyword(token) == token \in SV_KEYWORDS

FSM_STATES ==
    {<<"I", "D", "L", "E">>,
     <<"R", "E", "S", "P">>,
     <<"G", "O">>,
     <<"O", "N", "E">>,
     <<"B", "U", "S", "Y">>,
     <<"S", "T", "A", "R", "T">>,
     <<"S", "T", "O", "P">>}

\* is_fsm_state(sig)
is_fsm_state(sig) == sig \in FSM_STATES

\* the first position at or after i that holds no character of [\w\[\]:]
SkipExpr(t, i) ==
    LET stops == {k \in i..Len(t) : ~(IsWordChar(t[k]) \/ t[k] \in {"[", "]", ":"})}
    IN  IF i > Len(t) THEN i
        ELSE IF stops = {} THEN Len(t) + 1
        ELSE Least(stops)

\* the end of (?:<=|=) at a, 0 when neither stands there
assign_op_end(t, a) ==
    IF At(t, a, <<"<", "=">>) THEN a + 2
    ELSE IF At(t, a, <<"=">>) THEN a + 1
    ELSE 0

\* (\w+)\s*(?:<=|=)\s*([\w\[\]:]+) at k: the bounds of its two groups
assign_rhs(t, w, c, e) == IF e > c THEN <<w[1], w[2], c, e - 1>> ELSE no_groups

assign_op(t, w, o) ==
    IF o > 0 THEN assign_rhs(t, w, SkipSpace(t, o), SkipExpr(t, SkipSpace(t, o)))
    ELSE no_groups

assign_lhs(t, w) ==
    IF w[1] > 0 THEN assign_op(t, w, assign_op_end(t, SkipSpace(t, w[2] + 1))) ELSE no_groups

assign_at(t, k) == assign_lhs(t, word_at(t, k))

\* re.findall of the assignment pattern in t, from position i: the (lhs, rhs) pairs
RECURSIVE assigns_from(_, _)
assign_found(t, g) ==
    <<<<SubSeq(t, g[1], g[2]), SubSeq(t, g[3], g[4])>>>> \o assigns_from(t, g[4] + 1)

assigns_from(t, i) ==
    IF FirstWhere(t, i, assign_at) = 0 THEN <<>>
    ELSE assign_found(t, assign_at(t, FirstWhere(t, i, assign_at)))

\* decls.get(sig, 1)
width_of(decls, sig) == IF dict_has(decls, sig) THEN dict_get(decls, sig) ELSE int_width(1)

\* rhs_w
rhs_width(decls, rhs) ==
    stated_width(rhs, FirstWhere(rhs, 1, num_range_at), FirstWhere(rhs, 1, param_range_at),
                 width_of(decls, rhs))

\* the issue of one assignment whose sides have the widths lhs_w and rhs_w
width_issue(lhs, rhs, lhs_w, rhs_w) ==
    IF is_int(lhs_w) /\ is_int(rhs_w) /\ lhs_w # rhs_w
    THEN <<[lhs |-> lhs, lhs_width |-> lhs_w[2], rhs |-> rhs, rhs_width |-> rhs_w[2]]>>
    ELSE <<>>

\* the body of the loop over assigns
assign_issue(decls, lhs, rhs) ==
    IF is_literal(rhs) \/ is_keyword(rhs) \/ is_fsm_state(rhs) THEN <<>>
    ELSE width_issue(lhs, rhs, width_of(decls, lhs), rhs_width(decls, rhs))

RECURSIVE assign_issues(_, _)
assign_issues(decls, assigns) ==
    IF assigns = <<>> THEN <<>>
    ELSE assign_issue(decls, Head(assigns)[1], Head(assigns)[2])
         \o assign_issues(decls, Tail(assigns))

\* detect_width_mismatches(rtl_lines)
detect_width_mismatches(rtl_lines) ==
    assign_issues(extract_signal_declarations(rtl_lines),
                  assigns_from(join(<<" ">>, rtl_lines), 1))

\* [line.strip() for line in f if line.strip()]
RECURSIVE non_blank_stripped(_)
non_blank_stripped(ls) ==
    IF ls = <<>> THEN <<>>
    ELSE (IF strip(Head(ls)) = <<>> THEN <<>> ELSE <<strip(Head(ls))>>)
         \o non_blank_stripped(Tail(ls))

\* the loop of the width pass over rtl_files
RECURSIVE width_mismatches_of(_)
width_mismatches_of(files) ==
    IF files = <<>> THEN <<>>
    ELSE detect_width_mismatches(non_blank_stripped(Head(files)))
         \o width_mismatches_of(Tail(files))

\* the dict `out` of the main program
out_json(system_info, flat, issues) ==
    [modules |-> system_info.modules,
     connections_direct |-> system_info.connections,
     connections_flattened |-> flat,
     missing_connectivity |-> issues]

\* the connectivity JSON classify_system writes for a system
connectivity_json(sys) ==
    out_json(sys, flatten_connections(sys), detect_missing_connections(sys))

\* s.split('[')[0]
before_bracket(s) ==
    LET k == Find(s, "[", 1) IN IF k = 0 THEN s ELSE SubSeq(s, 1, k - 1)

\* parent_names of a connection
parent_names(conn) ==
    <<conn.parent_signal,
      conn.parent_module \o <<".">> \o conn.parent_signal,
      before_bracket(conn.parent_signal)>>

\* child_names of a connection
child_names(conn) ==
    <<conn.child_port,
      conn.instance \o <<".">> \o conn.child_port,
      before_bracket(conn.child_port)>>

\* the appends of a run of conn_map.setdefault(k, []).append(v) calls are kept
\* as the sequence of their <<k, v>>

\* an inner loop body that records only the parent-to-child direction (the mutant of C9)
add_pair_one_way(parent_name, child_name) ==
    << <<parent_name, child_name>> >>

\* the body of the inner loop: both directions of one pair of names
add_pair(parent_name, child_name) ==
    << <<parent_name, child_name>>, <<child_name, parent_name>> >>

\* the two nested loops over parent_names and child_names of one connection
add_connection(conn) ==
    LET P == parent_names(conn)
        C == child_names(conn)
    IN  add_pair(P[1], C[1]) \o add_pair(P[1], C[2]) \o add_pair(P[1], C[3]) \o
        add_pair(P[2], C[1]) \o add_pair(P[2], C[2]) \o add_pair(P[2], C[3]) \o
        add_pair(P[3], C[1]) \o add_pair(P[3], C[2]) \o add_pair(P[3], C[3])

\* the loop over connectivity.get('connections_direct', [])
RECURSIVE add_connections(_)
add_connections(conns) ==
    IF conns = <<>> THEN <<>>
    ELSE add_connection(Head(conns)) \o add_connections(Tail(conns))

\* conn_map[k] before the duplicates are removed: what was appended under k, in order
appended_under(appends, k) ==
    LET UnderK(kv) == kv[1] = k
        sel == SelectSeq(appends, UnderK)
    IN  [i \in 1..Len(sel) |-> sel[i][2]]

\* build_connection_map(connectivity): each key with the elements of its
\* list(set(...)); only the direct connections are read. The JSON object
\* classify_system writes always has its four keys, so only None is falsy.
build_connection_map(cty) ==
    IF cty = None THEN <<>>
    ELSE LET appends == add_connections(cty.connections_direct)
         IN  [k \in {appends[i][1] : i \in 1..Len(appends)} |->
                 Range(appended_under(appends, k))]

(***************************************************************************)
(* The connectivity tool followed by build_connection_map, over every list *)
(* of at most MaxConns direct Connections of a three-level design          *)
(* top -> u:mid -> v:leaf.                                                 *)
(***************************************************************************)
n_top == <<"t", "o", "p">>
n_mid == <<"m", "i", "d">>
n_leaf == <<"l", "e", "a", "f">>
n_a == <<"a">>
n_m == <<"m">>
n_q == <<"q">>
n_u == <<"u">>
n_v == <<"v">>
n_d0 == <<"d", "[", "0", "]">>

Connection(pm, ps, inst, cm, cp) ==
    [parent_module |-> pm, child_module |-> cm, instance |-> inst,
     child_port |-> cp, parent_signal |-> ps]

ConnectionPool ==
    { Connection(n_top, ps, n_u, n_mid, cp) : ps \in {n_a, n_m, n_d0}, cp \in {n_m, n_q, n_a} }
    \cup
    { Connection(n_mid, ps, n_v, n_leaf, cp) : ps \in {n_a, n_m, n_d0}, cp \in {n_m, n_q, n_a} }

ConnectionLists == UNION { [1..n -> ConnectionPool] : n \in 0..MaxConns }

\* the module map of a system whose files declare no port and no signal: an
\* entry for each parent module, in the order of the files
bare_modules(cs) ==
    LET parents == Distinct([i \in 1..Len(cs) |-> cs[i].parent_module])
    IN  [i \in 1..Len(parents) |-> <<parents[i], [ports |-> <<>>, signals |-> <<>>]>>]

\* analyze_system's result for such files with the Connections cs
bare_system(cs) == [modules |-> bare_modules(cs), connections |-> cs]

InitConnMap ==
    /\ pc = "cm_start"
    /\ ExtIdle
    /\ system \in { bare_system(cs) : cs \in ConnectionLists }
    /\ connectivity = None
    /\ conn_map = <<>>
    /\ conn_order = <<>>
    /\ NormIdle
    /\ TableIdle
    /\ SysIdle

\* classify_system's main program: the connectivity JSON it writes
WriteSystemJson ==
    /\ pc = "cm_start"
    /\ connectivity' = connectivity_json(system)
    /\ pc' = "cm_json"
    /\ UNCHANGED <<normVars, inVars, system, setupVars, outVars, sysVars, extVars>>

\* mapping.py: build_connection_map over the loaded JSON
BuildConnMap ==
    /\ pc = "cm_json"
    /\ conn_map' = build_connection_map(connectivity)
    /\ pc' = "cm_built"
    /\ UNCHANGED <<normVars, inVars, graphVars, conn_order, signal_map, clock_column, outVars, sysVars, extVars>>

NextConnMap == WriteSystemJson \/ BuildConnMap

SpecConnMap == InitConnMap /\ [][NextConnMap]_vars

\* C9: the Connection Map is symmetric: whenever A lists B among its
\* candidates, B is a key and B's candidates contain A.
C9_ConnMapSymmetric ==
    pc = "cm_built" =>
        \A A \in DOMAIN conn_map : \A B \in conn_map[A] :
            B \in DOMAIN conn_map /\ A \in conn_map[B]

\* C9's case: a map built from two Connections, in which a parent-side and a
\* child-side variant are the same string and duplicates were removed
C9_Witness ==
    /\ pc = "cm_built"
    /\ Len(connectivity.connections_direct) = 2
    /\ n_a \in DOMAIN conn_map
    /\ n_a \in conn_map[n_a]
    /\ n_top \o <<".">> \o n_d0 \in DOMAIN conn_map

\* C10: every Flattened Connection from S to P is indexed: P is among the
\* candidates of S and S among the candidates of P.
C10_FlattenedIndexed ==
    pc = "cm_built" =>
        \A i \in 1..Len(connectivity.connections_flattened) :
            LET S == connectivity.connections_flattened[i].from_signal_expr
                P == connectivity.connections_flattened[i].to_signal
            IN  /\ S \in DOMAIN conn_map /\ P \in conn_map[S]
                /\ P \in DOMAIN conn_map /\ S \in conn_map[P]

\* C11: every Flattened Connection is the composition of two direct
\* Connections of the input, C from from_module through via_instance into
\* via_module and D from via_module to to_module.to_signal; an empty
\* Connection list flattens to an empty list.
C11_FlattenSound ==
    connectivity # None =>
        /\ \A i \in 1..Len(connectivity.connections_flattened) :
              LET f == connectivity.connections_flattened[i]
              IN  \E C \in Range(system.connections), D \in Range(system.connections) :
                      /\ C.parent_module = f.from_module
                      /\ C.parent_signal = f.from_signal_expr
                      /\ C.instance = f.via_instance
                      /\ C.child_module = f.via_module
                      /\ D.parent_module = f.via_module
                      /\ D.parent_signal = f.inner_expr
                      /\ D.child_module = f.to_module
                      /\ D.child_port = f.to_signal
        /\ system.connections = <<>> => connectivity.connections_flattened = <<>>

\* a two-level system whose top-level signal d[0] reaches a port of leaf
\* through instance u of mid
C11_Witness ==
    /\ pc = "cm_json"
    /\ \E i \in 1..Len(connectivity.connections_flattened) :
        /\ connectivity.connections_flattened[i].from_module = n_top
        /\ connectivity.connections_flattened[i].from_signal_expr = n_d0
        /\ connectivity.connections_flattened[i].via_instance = n_u
        /\ connectivity.connections_flattened[i].to_module = n_leaf

(***************************************************************************)
(* mapping.py: match_waveform_signals, is_empty_value,                     *)
(* find_connected_signal and build_table.                                  *)
(***************************************************************************)
\* an is_empty_value that also counts the unknown x and high-impedance z as
\* missing (the mutant of C1 and C4)
is_empty_value_xz(val) ==
    strip(val) \in {<<>>, <<"-">>, <<"?">>, <<"x">>, <<"z">>}

\* is_empty_value(val)
is_empty_value(val) ==
    LET v == strip(val) IN v = <<>> \/ v \in {<<>>, <<"-">>, <<"?">>}

\* s.split('.')[-1]
last_component(s) == Drop(s, FindLast(s, ".", Len(s)) + 1)

\* the first position of hs whose element satisfies P, 0 when there is none
FirstIndex(hs, P(_)) ==
    LET hits == {i \in 1..Len(hs) : P(hs[i])}
    IN  IF hits = {} THEN 0 ELSE CHOOSE i \in hits : \A j \in hits : i <= j

\* row.get(key, default): a row holds its values in the order of the headers
row_get(hs, row, key, default) ==
    LET Is(h) == h = key
    IN  IF FirstIndex(hs, Is) = 0 THEN default ELSE row[FirstIndex(hs, Is)]

\* the keys under which match_waveform_signals enters a metadata signal in meta_norm
meta_norm_keys(meta_sig) == {normalize(meta_sig), lower(last_component(meta_sig))}

\* key in meta_norm
meta_norm_has(mm, key) == \E i \in 1..Len(mm) : key \in meta_norm_keys(mm[i][1])

\* meta_norm[key]: the assignment of the last metadata signal wins
meta_norm_get(mm, key) ==
    mm[CHOOSE i \in 1..Len(mm) :
          /\ key \in meta_norm_keys(mm[i][1])
          /\ \A j \in (i + 1)..Len(mm) : key \notin meta_norm_keys(mm[j][1])][1]

\* '.'.join(parts[-2:])
two_level(cleaned) ==
    LET parts == Components(cleaned)
    IN  IF Len(parts) >= 2 THEN Join(SubSeq(parts, Len(parts) - 1, Len(parts))) ELSE cleaned

\* the three strategies of match_waveform_signals for one column, given its
\* normalized name and its base name: the metadata signal, None when no
\* strategy matches
strategy_meta(mm, cleaned, wf_base) ==
    IF meta_norm_has(mm, cleaned) THEN <<meta_norm_get(mm, cleaned)>>
    ELSE IF meta_norm_has(mm, wf_base) THEN <<meta_norm_get(mm, wf_base)>>
    ELSE IF Find(cleaned, ".", 1) > 0 /\ meta_norm_has(mm, two_level(cleaned))
         THEN <<meta_norm_get(mm, two_level(cleaned))>>
    ELSE <<>>

\* the metadata signal match_waveform_signals attributes wf_sig to
matched_meta(wf_sig, mm) ==
    strategy_meta(mm, normalize(wf_sig), lower(sub_array_index(last_component(wf_sig), 1)))

\* signal_map extended by the item of wf_sig when it has a metadata signal
with_match(wf_sig, meta) ==
    IF meta = <<>> THEN <<>> ELSE << <<wf_sig, meta[1]>> >>

\* match_waveform_signals(waveform_row, metadata_map): the dict wf_sig -> meta_sig
\* as the sequence of its items, in the order of the row's keys
RECURSIVE match_waveform_signals(_, _)
match_waveform_signals(hs, mm) ==
    IF hs = <<>> THEN <<>>
    ELSE with_match(Head(hs), matched_meta(Head(hs), mm))
         \o match_waveform_signals(Tail(hs), mm)

\* a lookup that takes the last waveform column matched to meta_sig (the
\* mutant of C28)
wf_sig_of_last(smap, meta_sig) ==
    LET hits == {i \in 1..Len(smap) : smap[i][2] = meta_sig}
    IN  IF hits = {} THEN 0 ELSE CHOOSE i \in hits : \A j \in hits : i >= j

\* next((k for k, v in signal_map.items() if v == meta_sig), None), as the
\* position in signal_map, 0 for None
wf_sig_of(smap, meta_sig) ==
    LET Maps(kv) == kv[2] = meta_sig IN FirstIndex(smap, Maps)

\* Strategy 1 of find_connected_signal: the column equal to candidate c, 0 when
\* none is (headers.index)
exact_column(c, hs) ==
    LET M(h) == h = c IN FirstIndex(hs, M)

\* Strategy 2: the first column whose normalized name is normalize(c)
normalized_column(c, hs) ==
    LET norm_target == normalize(c)
        M(h) == normalize(h) = norm_target
    IN  FirstIndex(hs, M)

\* Strategy 3: the first column whose last component, array index removed, is
\* the last component of c, whatever the case
last_component_column(c, hs) ==
    LET target_base == lower(last_component(c))
        M(h) == lower(sub_array_index(last_component(h), 1)) = target_base
    IN  FirstIndex(hs, M)

\* Strategy 4: the first column that ends in .c or _c
suffix_column(c, hs) ==
    LET M(h) == endswith(h, <<".">> \o c) \/ endswith(h, <<"_">> \o c)
    IN  FirstIndex(hs, M)

\* the return statement taken, given the column of each strategy: <<strategy,
\* column>>, <<0, 0>> when the candidate falls through all four
first_strategy(c1, c2, c3, c4) ==
    IF c1 > 0 THEN <<1, c1>>
    ELSE IF c2 > 0 THEN <<2, c2>>
    ELSE IF c3 > 0 THEN <<3, c3>>
    ELSE IF c4 > 0 THEN <<4, c4>>
    ELSE <<0, 0>>

\* a find_connected_signal that knows only the exact and the suffix strategy
\* (the mutant of C3)
candidate_match_exact_or_suffix(c, hs) ==
    first_strategy(exact_column(c, hs), 0, 0, suffix_column(c, hs))

\* the body of the loop over the candidates
candidate_match(c, hs) ==
    first_strategy(exact_column(c, hs), normalized_column(c, hs),
                   last_component_column(c, hs), suffix_column(c, hs))

\* the column of candidate c under strategy s
strategy_column(s, c, hs) ==
    CASE s = 1 -> exact_column(c, hs)
      [] s = 2 -> normalized_column(c, hs)
      [] s = 3 -> last_component_column(c, hs)
      [] s = 4 -> suffix_column(c, hs)

\* a loop that tries each strategy on every candidate before it goes on to
\* the next strategy (the mutant of C27)
first_return_by_strategy(cands, hs, n) ==
    LET hit == { p \in (1..4) \X (n..Len(cands)) : strategy_column(p[1], cands[p[2]], hs) > 0 }
        best == CHOOSE p \in hit : \A q \in hit : p[1] < q[1] \/ (p[1] = q[1] /\ p[2] <= q[2])
    IN  IF hit = {} THEN <<0, 0, 0>>
        ELSE <<best[2], best[1], strategy_column(best[1], cands[best[2]], hs)>>

\* the loop `for connected_sig in conn_map[sig_name]`, from candidate number n:
\* <<candidate number, strategy, column>> of the first return, <<0, 0, 0>> when
\* the loop ends
RECURSIVE first_return(_, _, _)
RECURSIVE return_or_continue(_, _, _, _)
return_or_continue(cands, hs, n, m) ==
    IF m[1] > 0 THEN <<n, m[1], m[2]>> ELSE first_return(cands, hs, n + 1)

first_return(cands, hs, n) ==
    IF n > Len(cands) THEN <<0, 0, 0>>
    ELSE return_or_continue(cands, hs, n, candidate_match(cands[n], hs))

\* what find_connected_signal returns after its loop: (column name, column
\* index), col = 0 standing for (None, None)
returned(hs, r) ==
    IF r[1] = 0 THEN [name |-> <<>>, col |-> 0] ELSE [name |-> hs[r[3]], col |-> r[3]]

\* find_connected_signal(sig_name, headers, conn_map). order[sig_name] is the
\* order in which list(set(...)) holds the candidates.
find_connected_signal(sig_name, hs, cm, order) ==
    IF cm = <<>> \/ sig_name \notin DOMAIN cm THEN [name |-> <<>>, col |-> 0]
    ELSE returned(hs, first_return(order[sig_name], hs, 1))

\* the direct value of a metadata signal in a row: row.get(wf_sig, "") of the
\* first waveform column matched to it, "" when no column is
direct_value(cx, row, meta_sig) ==
    LET k == wf_sig_of(cx.signal_map, meta_sig)
    IN  IF k > 0 THEN row_get(cx.hs, row, cx.signal_map[k][1], <<>>) ELSE <<>>

\* filled_signals with (meta_sig, connected_name) added unless meta_sig is tracked
track_filled(filled, meta_sig, connected_name) ==
    IF \E i \in 1..Len(filled) : filled[i][1] = meta_sig
    THEN filled
    ELSE Append(filled, <<meta_sig, connected_name>>)

\* a resolver that tries the connection whatever the direct value is (the mutant of C1)
resolve_value_always_fallback(cx, row, meta_sig, filled) ==
    LET value == direct_value(cx, row, meta_sig)
        f == find_connected_signal(meta_sig, cx.hs, cx.cm, cx.order)
        cv == row_get(cx.hs, row, f.name, <<>>)
    IN  IF cx.cm # <<>> /\ f.col > 0 /\ f.name # <<>> /\ ~is_empty_value(cv)
        THEN [value |-> cv, filled |-> track_filled(filled, meta_sig, f.name)]
        ELSE [value |-> value, filled |-> filled]

\* a resolver that copies the connected value without looking whether it is
\* empty (the mutant of C5)
resolve_value_copies_empty(cx, row, meta_sig, filled) ==
    LET value == direct_value(cx, row, meta_sig)
        f == find_connected_signal(meta_sig, cx.hs, cx.cm, cx.order)
    IN  IF is_empty_value(value) /\ cx.cm # <<>> /\ f.col > 0 /\ f.name # <<>>
        THEN [value |-> row_get(cx.hs, row, f.name, <<>>),
              filled |-> track_filled(filled, meta_sig, f.name)]
        ELSE [value |-> value, filled |-> filled]

\* a resolver that fills a signal only while it is not yet in filled_signals
\* (the mutant of C6)
resolve_value_fill_once(cx, row, meta_sig, filled) ==
    LET value == direct_value(cx, row, meta_sig)
        f == find_connected_signal(meta_sig, cx.hs, cx.cm, cx.order)
        cv == row_get(cx.hs, row, f.name, <<>>)
    IN  IF /\ is_empty_value(value) /\ cx.cm # <<>> /\ f.col > 0 /\ f.name # <<>>
           /\ ~is_empty_value(cv)
           /\ ~\E i \in 1..Len(filled) : filled[i][1] = meta_sig
        THEN [value |-> cv, filled |-> track_filled(filled, meta_sig, f.name)]
        ELSE [value |-> value, filled |-> filled]

\* the statements after `value = row.get(wf_sig, "")`: f is what
\* find_connected_signal returns, looked at only when value is empty and
\* there is a conn_map
value_or_connected(cx, row, meta_sig, filled, value, f) ==
    IF /\ is_empty_value(value) /\ cx.cm # <<>>
       /\ f.col > 0 /\ f.name # <<>>
       /\ ~is_empty_value(row_get(cx.hs, row, f.name, <<>>))
    THEN [value |-> row_get(cx.hs, row, f.name, <<>>),
          filled |-> track_filled(filled, meta_sig, f.name)]
    ELSE [value |-> value, filled |-> filled]

\* the body of the loop over the metadata signals: the value of meta_sig in
\* this row and filled_signals after it
resolve_value(cx, row, meta_sig, filled) ==
    value_or_connected(cx, row, meta_sig, filled, direct_value(cx, row, meta_sig),
                       find_connected_signal(meta_sig, cx.hs, cx.cm, cx.order))

\* e[meta_sig] = value, with filled_signals as the loop body left it
with_value(acc, meta_sig, r) ==
    [e |-> dict_set(acc.e, meta_sig, r.value), filled |-> r.filled]

\* the loop `for meta_sig in metadata_map` of one row, from signal number k
RECURSIVE fill_metadata(_, _, _, _)
fill_metadata(cx, row, k, acc) ==
    IF k > Len(cx.mm) THEN acc
    ELSE IF cx.clock_column # <<>> /\ cx.mm[k][1] = cx.clock_column[1]
         THEN fill_metadata(cx, row, k + 1, acc)
         ELSE fill_metadata(cx, row, k + 1,
                  with_value(acc, cx.mm[k][1],
                             resolve_value(cx, row, cx.mm[k][1], acc.filled)))

\* c.startswith("time_")
is_time_column(c) == startswith(c, <<"t", "i", "m", "e", "_">>)

\* e after the time and the clock column are set
time_and_clock(cx, row, time_col) ==
    IF cx.clock_column = <<>>
    THEN << <<time_col, row_get(cx.hs, row, time_col, <<>>)>> >>
    ELSE dict_set(<< <<time_col, row_get(cx.hs, row, time_col, <<>>)>> >>,
                  cx.clock_column[1], direct_value(cx, row, cx.clock_column[1]))

\* the dict e of a row that has its time column, and filled_signals after it
process_row(cx, row, filled) ==
    fill_metadata(cx, row, 1,
        [e |-> time_and_clock(cx, row, cx.hs[FirstIndex(cx.hs, is_time_column)]),
         filled |-> filled])

\* rows.append(e)
with_row(acc, r) == [rows |-> Append(acc.rows, r.e), filled |-> r.filled]

\* the loop `for row in waveform`, from row number i
RECURSIVE build_rows(_, _, _, _)
build_rows(cx, wf, i, acc) ==
    IF i > Len(wf) THEN acc
    ELSE build_rows(cx, wf, i + 1, with_row(acc, process_row(cx, wf[i], acc.filled)))

\* clock_column: the metadata signal of the first item of signal_map that is a
\* clock signal; <<>> stands for None
clock_column_of(smap, clocks) ==
    LET IsClock(kv) == kv[2] \in Range(clocks)
        k == FirstIndex(smap, IsClock)
    IN  IF k = 0 THEN <<>> ELSE <<smap[k][2]>>

\* what the loops of build_table read: its arguments and the locals set before
\* the loop over the rows
context(mm, hs, cm, order, smap, clock) ==
    [mm |-> mm, hs |-> hs, cm |-> cm, order |-> order,
     signal_map |-> smap, clock_column |-> clock]

\* an order that leaves the clock column at its place among the metadata
\* signals (the mutant of C14)
ordered_columns_clock_in_place(cx) ==
    <<cx.hs[FirstIndex(cx.hs, is_time_column)]>>
        \o [i \in 1..Len(cx.mm) |-> cx.mm[i][1]]

\* ordered: the time column, the clock column, the remaining metadata signals
ordered_columns(cx) ==
    LET time_col == cx.hs[FirstIndex(cx.hs, is_time_column)]
        first == <<time_col>> \o cx.clock_column
        NotYet(kv) == kv[1] \notin Range(first)
        rest == SelectSeq(cx.mm, NotYet)
    IN  first \o [i \in 1..Len(rest) |-> rest[i][1]]

\* metadata_map.get(col, "other")
class_of(mm, col) ==
    IF \E i \in 1..Len(mm) : mm[i][1] = col
    THEN mm[CHOOSE i \in 1..Len(mm) : mm[i][1] = col][2]
    ELSE "other"

\* a classification row without the cell of the time column (the mutant of C13)
class_row_without_time(cx, ordered) ==
    [j \in 1..(Len(ordered) - 1) |->
        IF cx.clock_column # <<>> /\ ordered[j + 1] = cx.clock_column[1] THEN "clock"
        ELSE class_of(cx.mm, ordered[j + 1])]

\* a classification row that looks every column up in the Metadata Map (the
\* mutant of C15)
class_row_all_classified(cx, ordered) ==
    [j \in 1..Len(ordered) |-> class_of(cx.mm, ordered[j])]

\* class_row
class_row(cx, ordered) ==
    [j \in 1..Len(ordered) |->
        IF ordered[j] = cx.hs[FirstIndex(cx.hs, is_time_column)] THEN ""
        ELSE IF cx.clock_column # <<>> /\ ordered[j] = cx.clock_column[1] THEN "clock"
        ELSE class_of(cx.mm, ordered[j])]

\* the CSV build_table writes: class row, header row, data rows
written_table(cx, rs) ==
    LET ordered == ordered_columns(cx)
    IN  [class_row |-> class_row(cx, ordered),
         header |-> ordered,
         data |-> [i \in 1..Len(rs) |-> [j \in 1..Len(ordered) |-> dict_get(rs[i], ordered[j])]]]

(***************************************************************************)
(* The runs of mapping.py's main program that are explored.                *)
(***************************************************************************)
h_time_ns == <<"t", "i", "m", "e", "_", "n", "s">>
h_timestamp == <<"t", "i", "m", "e", "s", "t", "a", "m", "p">>
h_time_ps == <<"t", "i", "m", "e", "_", "p", "s">>
h_tb_dut_a == <<"t", "b", ".", "d", "u", "t", ".", "a">>
h_tb_dut_w_p == <<"t", "b", ".", "d", "u", "t", ".", "w", ".", "p">>
h_tb_dut_u_p == <<"t", "b", ".", "d", "u", "t", ".", "u", ".", "p">>
n_s == <<"s">>
n_p == <<"p">>
h_soc_tb_dut_clk == <<"s", "o", "c", "_", "t", "b", ".", "d", "u", "t", ".", "c", "l", "k">>
n_clk == <<"c", "l", "k">>
h_soc_tb_dut_u_uart_tx_busy == <<"s", "o", "c", "_", "t", "b", ".", "d", "u", "t", ".", "u", "_", "u", "a", "r", "t", ".", "t", "x", "_", "b", "u", "s", "y">>
n_u_uart == <<"u", "_", "u", "a", "r", "t">>
n_tx_busy == <<"t", "x", "_", "b", "u", "s", "y">>
n_soc_periph_top == <<"s", "o", "c", "_", "p", "e", "r", "i", "p", "h", "_", "t", "o", "p">>
n_uart_tx == <<"u", "a", "r", "t", "_", "t", "x">>

v_empty == <<>>
v_dash == <<"-">>
v_question == <<"?">>
v_blank == <<" ">>
v_0 == <<"0">>
v_1 == <<"1">>
v_x == <<"x">>
v_z == <<"z">>

\* Signal a of module top drives port p of instance u. The waveform has a's own
\* column and the column of port p of two instances, u and w.
AltScenario ==
    [hs |-> <<h_time_ns, h_tb_dut_a, h_tb_dut_w_p, h_tb_dut_u_p>>,
     mm |-> << <<n_a, "data">>, <<n_s, "control">> >>,
     clocks |-> <<>>,
     connectivity |-> connectivity_json(
         bare_system(<<Connection(n_top, n_a, n_u, n_mid, n_p)>>)),
     rows |-> { <<v_0, a, w, u>> : a \in {v_empty, v_dash, v_blank, v_0, v_x},
                                   w \in {v_empty, v_1},
                                   u \in {v_question, v_z} }]

\* The end-to-end scenario: soc_periph_top binds .tx_busy(uart_busy) of
\* instance u_uart; only the child's column is in the waveform.
UartScenario ==
    [hs |-> <<h_time_ps, h_soc_tb_dut_clk, h_soc_tb_dut_u_uart_tx_busy>>,
     mm |-> << <<n_clk, "clock">>, <<uart_busy, "status">> >>,
     clocks |-> <<n_clk>>,
     connectivity |-> connectivity_json(
         bare_system(<<Connection(n_soc_periph_top, uart_busy, n_u_uart,
                                  n_uart_tx, n_tx_busy)>>)),
     rows |-> { <<v_0, c, b>> : c \in {v_0, v_1},
                                b \in {v_empty, v_dash, v_question, v_0, v_1, v_x, v_z} }]

\* No connectivity file is given.
PlainScenario ==
    [hs |-> <<h_time_ns, h_tb_dut_a, h_tb_dut_u_p>>,
     mm |-> << <<n_a, "data">> >>,
     clocks |-> <<>>,
     connectivity |-> None,
     rows |-> { <<v_0, a, u>> : a \in {v_empty, v_1, v_x}, u \in {v_empty, v_1} }]

\* The waveform's time column does not carry the time_ prefix.
NoTimeScenario ==
    [hs |-> <<h_timestamp, h_tb_dut_a>>,
     mm |-> << <<n_a, "data">> >>,
     clocks |-> <<>>,
     connectivity |-> None,
     rows |-> { <<v_0, a>> : a \in {v_empty, v_1} }]

\* Two clock signals, the first without a waveform column, the second after a
\* data signal in the Metadata Map.
TwoClockScenario ==
    [hs |-> <<h_time_ns, h_tb_dut_a, h_soc_tb_dut_clk>>,
     mm |-> << <<n_a, "data">>, <<n_s, "clock">>, <<n_clk, "CLOCK">> >>,
     clocks |-> <<n_s, n_clk>>,
     connectivity |-> None,
     rows |-> { <<v_0, a, c>> : a \in {v_0, v_1}, c \in {v_0, v_1} }]

\* A metadata signal that bears the name of the time column.
TimeSignalScenario ==
    [hs |-> <<h_time_ns, h_tb_dut_a>>,
     mm |-> << <<n_a, "data">>, <<h_time_ns, "data">> >>,
     clocks |-> <<>>,
     connectivity |-> None,
     rows |-> { <<v_0, a>> : a \in {v_empty, v_1} }]

\* Two waveform columns, tb.dut.w.p and tb.dut.u.p, of one metadata signal p.
SharedScenario ==
    [hs |-> <<h_time_ns, h_tb_dut_w_p, h_tb_dut_u_p>>,
     mm |-> << <<n_p, "data">> >>,
     clocks |-> <<>>,
     connectivity |-> None,
     rows |-> { <<v_0, w, u>> : w \in {v_empty, v_0}, u \in {v_1, v_x} }]

Scenarios ==
    {AltScenario, UartScenario, PlainScenario, NoTimeScenario, TwoClockScenario,
     TimeSignalScenario, SharedScenario}

Waveforms(pool) == UNION { [1..n -> pool] : n \in 0..MaxRows }

\* the orders of S as a list
Perms(S) == { q \in [1..Cardinality(S) -> S] : Range(q) = S }

\* the orders in which the lists of conn_map that build_table iterates (those
\* of the metadata signals) can come out of list(set(...))
Orders(cm, mm) ==
    LET sigs == {mm[i][1] : i \in 1..Len(mm)} \cap DOMAIN cm
    IN  { o \in [sigs -> UNION { Perms(cm[g]) : g \in sigs }] :
            \A g \in sigs : o[g] \in Perms(cm[g]) }

Init ==
    /\ pc = "start"
    /\ ExtIdle
    /\ \E scn \in Scenarios :
        /\ headers = scn.hs
        /\ metadata_map = scn.mm
        /\ clock_signals = scn.clocks
        /\ connectivity = scn.connectivity
        /\ waveform \in Waveforms(scn.rows)
    /\ system = None
    /\ conn_map = <<>>
    /\ conn_order = <<>>
    /\ signal_map = <<>>
    /\ clock_column = <<>>
    /\ rows = <<>>
    /\ filled_signals = <<>>
    /\ table = None
    /\ NormIdle
    /\ SysIdle

\* build_table up to its loop over the rows: signal_map from waveform[0],
\* conn_map, clock_column
StartBuildTable ==
    /\ pc = "start"
    /\ waveform # <<>>
    /\ signal_map' = match_waveform_signals(headers, metadata_map)
    /\ conn_map' = build_connection_map(connectivity)
    /\ conn_order' \in Orders(conn_map', metadata_map)
    /\ clock_column' = clock_column_of(signal_map', clock_signals)
    /\ pc' = "rows"
    /\ UNCHANGED <<normVars, inVars, graphVars, outVars, sysVars, extVars>>

\* waveform[0] of an empty waveform raises IndexError: the main program
\* prints the error and exits with 1
EmptyWaveformRaises ==
    /\ pc = "start"
    /\ waveform = <<>>
    /\ pc' = "error"
    /\ UNCHANGED <<normVars, inVars, graphVars, setupVars, outVars, sysVars, extVars>>

\* the loop over the rows, and the table written after it
BuildRows ==
    /\ pc = "rows"
    /\ FirstIndex(headers, is_time_column) > 0
    /\ \E cx \in {context(metadata_map, headers, conn_map, conn_order,
                         signal_map, clock_column)} :
         \E r \in {build_rows(cx, waveform, 1, [rows |-> <<>>, filled |-> <<>>])} :
            /\ rows' = r.rows
            /\ filled_signals' = r.filled
            /\ table' = written_table(cx, r.rows)
    /\ pc' = "done"
    /\ UNCHANGED <<normVars, inVars, graphVars, setupVars, sysVars, extVars>>

\* a row without a time_ column: next() raises StopIteration in the first
\* iteration, the main program prints the error and exits with 1
NoTimeColumnRaises ==
    /\ pc = "rows"
    /\ FirstIndex(headers, is_time_column) = 0
    /\ pc' = "error"
    /\ UNCHANGED <<normVars, inVars, graphVars, setupVars, outVars, sysVars, extVars>>

Next == StartBuildTable \/ EmptyWaveformRaises \/ BuildRows \/ NoTimeColumnRaises

Spec == Init /\ [][Next]_vars

(***************************************************************************)
(* The table of a finished build_table, read cell by cell.                 *)
(***************************************************************************)
Done == pc = "done"

Cx == context(metadata_map, headers, conn_map, conn_order, signal_map, clock_column)

\* the metadata signals the loop `for meta_sig in metadata_map` resolves
Targets ==
    {metadata_map[k][1] : k \in 1..Len(metadata_map)} \ Range(clock_column)

\* the cell of signal s in output row i of the written CSV
Cell(i, s) == table.data[i][CHOOSE j \in 1..Len(table.header) : table.header[j] = s]

\* the value of s's own waveform column in sampled row i
Direct(i, s) == direct_value(Cx, waveform[i], s)

\* a value that is absent: trimmed, it is the empty string, - or ?
Absent(v) == strip(v) \in {<<>>, <<"-">>, <<"?">>}

\* the column find_connected_signal selects for s, 0 when it selects none
Selected(s) == find_connected_signal(s, headers, conn_map, conn_order).col

\* the columns some candidate of s matches under some strategy
Reachable(s) ==
    IF s \notin DOMAIN conn_map THEN {}
    ELSE {j \in 1..Len(headers) :
            \E c \in conn_map[s] : candidate_match(c, <<headers[j]>>)[1] > 0}

\* C1: a metadata signal whose own waveform value is not absent (0, 1, x, z
\* included) gets exactly that value in the output cell, whatever its connected
\* columns hold, and a signal is recorded as filled from a connection only if
\* its own value is absent in some row.
C1_DirectValueWins ==
    Done =>
        \A s \in Targets :
            /\ \A i \in 1..Len(waveform) :
                   ~Absent(Direct(i, s)) => Cell(i, s) = Direct(i, s)
            /\ (\E f \in 1..Len(filled_signals) : filled_signals[f][1] = s)
                   => \E i \in 1..Len(waveform) : Absent(Direct(i, s))

\* a row where the signal's own value is x and the connected column selected
\* for it holds another value that is not absent
C1_Witness ==
    /\ Done
    /\ \E s \in Targets, i \in 1..Len(waveform) :
        /\ Direct(i, s) = v_x
        /\ Selected(s) > 0
        /\ ~Absent(waveform[i][Selected(s)])
        /\ waveform[i][Selected(s)] # v_x
        /\ Cell(i, s) = v_x

\* the candidates of s, in list order, whose matched column is not absent in row i
Suppliers(i, s) ==
    {n \in 1..Len(conn_order[s]) :
        /\ candidate_match(conn_order[s][n], headers)[1] > 0
        /\ ~Absent(waveform[i][candidate_match(conn_order[s][n], headers)[2]])}

\* C2: when the signal's own value is absent, the first candidate whose matched
\* column is not absent in the row supplies the cell; candidates whose matched
\* column is absent are passed over.
C2_FirstNonEmptyCandidateWins ==
    Done =>
        \A s \in Targets \cap DOMAIN conn_map, i \in 1..Len(waveform) :
            (Absent(Direct(i, s)) /\ Suppliers(i, s) # {}) =>
                \E n \in Suppliers(i, s) :
                    /\ \A m \in Suppliers(i, s) : n <= m
                    /\ Cell(i, s) =
                         waveform[i][candidate_match(conn_order[s][n], headers)[2]]

\* the run of the uart_busy example: the column of the child port holds 1 in row i
UartRow(i) ==
    /\ headers = UartScenario.hs
    /\ metadata_map = UartScenario.mm
    /\ connectivity = UartScenario.connectivity
    /\ i \in 1..Len(waveform)
    /\ waveform[i][3] = v_1

\* the strategy under which find_connected_signal returns for s, 0 when it
\* returns (None, None)
StrategyUsed(s) ==
    IF s \notin DOMAIN conn_map THEN 0 ELSE first_return(conn_order[s], headers, 1)[2]

\* C3 as stated: uart_busy gets 1 and the column is found by strategy 4.
C3_FoundBySuffixStrategy ==
    Done => \A i \in 1..Len(waveform) :
        UartRow(i) => (Cell(i, uart_busy) = v_1 /\ StrategyUsed(uart_busy) = 4)

\* C3: uart_busy gets 1 from the column soc_tb.dut.u_uart.tx_busy, which is
\* found by the normalized-match strategy (2) or the last-component strategy
\* (3), according to the candidate that comes first.
C3_FoundByNormalizedOrLastComponent ==
    Done => \A i \in 1..Len(waveform) :
        UartRow(i) =>
            /\ Cell(i, uart_busy) = v_1
            /\ Selected(uart_busy) = 3
            /\ StrategyUsed(uart_busy) \in {2, 3}

\* the uart_busy example with a second row in which the child port holds 1
C3_Witness ==
    /\ Done
    /\ UartRow(2)
    /\ Cell(2, uart_busy) = v_1
    /\ uart_busy \notin {signal_map[k][2] : k \in 1..Len(signal_map)}

\* C4: when the signal's own value is absent and the connected column selected
\* for it holds x or z, the cell is that x or z.
C4_UnknownValuesCopied ==
    Done =>
        \A s \in Targets, i \in 1..Len(waveform) :
            (/\ Absent(Direct(i, s))
             /\ Selected(s) > 0
             /\ waveform[i][Selected(s)] \in {v_x, v_z})
                => Cell(i, s) = waveform[i][Selected(s)]

\* a row where an absent value is filled with the z of the selected column
C4_Witness ==
    /\ Done
    /\ \E s \in Targets, i \in 1..Len(waveform) :
        /\ Absent(Direct(i, s))
        /\ Selected(s) > 0
        /\ waveform[i][Selected(s)] = v_z
        /\ Cell(i, s) = v_z

\* C5: when the signal's own value is absent and every column its candidates
\* reach is absent too, or it has no candidates, the cell keeps the signal's
\* own absent value.
C5_StaysEmpty ==
    Done =>
        \A s \in Targets, i \in 1..Len(waveform) :
            (/\ Absent(Direct(i, s))
             /\ \A j \in Reachable(s) : Absent(waveform[i][j]))
                => (Cell(i, s) = Direct(i, s) /\ Absent(Cell(i, s)))

\* a second row whose own value and reachable columns are all absent, after a
\* first row that was filled from a connection
C5_Witness ==
    /\ Done
    /\ Len(waveform) = 2
    /\ \E s \in Targets :
        /\ Reachable(s) # {}
        /\ Absent(Direct(2, s))
        /\ \A j \in Reachable(s) : Absent(waveform[2][j])
        /\ \E f \in 1..Len(filled_signals) : filled_signals[f][1] = s
        /\ Cell(1, s) # Cell(2, s)

\* build_table run on sampled row i alone, with the same headers, Metadata Map
\* and Connection Map
Alone(i) == build_rows(Cx, <<waveform[i]>>, 1, [rows |-> <<>>, filled |-> <<>>]).rows

\* C6: every output row is the row build_table emits for its sampled row
\* alone: the other rows, their order and the signals filled in them have no
\* part in it.
C6_RowsIndependent ==
    Done =>
        \A i \in 1..Len(waveform) :
            /\ rows[i] = Alone(i)[1]
            /\ table.data[i] = written_table(Cx, Alone(i)).data[1]

\* a signal filled from a connection in the first row that is filled with
\* another value in the second row
C6_Witness ==
    /\ Done
    /\ Len(waveform) = 2
    /\ \E s \in Targets :
        /\ Absent(Direct(1, s)) /\ Absent(Direct(2, s))
        /\ ~Absent(Cell(1, s)) /\ ~Absent(Cell(2, s))
        /\ Cell(1, s) # Cell(2, s)

\* C13: in a written table the classification row, the header row and every
\* data row have one cell per output column, and there is one data row per
\* Sampled Row.
C13_TableShape ==
    Done =>
        /\ Len(table.class_row) = Len(table.header)
        /\ Len(table.data) = Len(waveform)
        /\ \A i \in 1..Len(table.data) : Len(table.data[i]) = Len(table.header)

\* a table of two data rows with a time, a clock and three more columns
C13_Witness ==
    /\ Done
    /\ Len(table.data) = 2
    /\ Len(table.header) = 4
    /\ clock_column # <<>>

\* the name of the time column: the first header that starts with time_
TimeCol == headers[CHOOSE j \in 1..Len(headers) :
                      /\ is_time_column(headers[j])
                      /\ \A k \in 1..(j - 1) : ~is_time_column(headers[k])]

\* the clock signals of the Metadata Map that are matched to a waveform column
MatchedClocks ==
    {signal_map[k][2] : k \in 1..Len(signal_map)} \cap Range(clock_signals)

\* the signals of the Metadata Map, in its iteration order, that are not in lead
Remaining(lead) ==
    LET NotLead(kv) == kv[1] \notin Range(lead)
        rest == SelectSeq(metadata_map, NotLead)
    IN  [i \in 1..Len(rest) |-> rest[i][1]]

\* C14: the header is the time column, then the clock column when a clock
\* signal is matched to a waveform column, then the remaining signals of the
\* Metadata Map in its iteration order, each once.
C14_HeaderOrder ==
    Done =>
        /\ table.header[1] = TimeCol
        /\ IF MatchedClocks = {}
           THEN table.header = <<TimeCol>> \o Remaining(<<TimeCol>>)
           ELSE /\ table.header[2] \in MatchedClocks
                /\ table.header =
                     <<TimeCol, table.header[2]>> \o Remaining(<<TimeCol, table.header[2]>>)

\* a table whose clock column stands before a data signal that precedes it in
\* the Metadata Map, an unmatched clock signal staying among the others
C14_Witness ==
    /\ Done
    /\ metadata_map = TwoClockScenario.mm
    /\ table.header = <<h_time_ns, n_clk, n_a, n_s>>

\* metadata_map.get(s, "other") of a column name
Classification(s) ==
    IF \E k \in 1..Len(metadata_map) : metadata_map[k][1] = s
    THEN metadata_map[CHOOSE k \in 1..Len(metadata_map) : metadata_map[k][1] = s][2]
    ELSE "other"

\* C15: the classification row holds the empty string under the time column,
\* clock under the clock column, and under every other column the signal's
\* classification in the Metadata Map, other when it has none.
C15_ClassRow ==
    Done =>
        \A j \in 1..Len(table.header) :
            table.class_row[j] =
                IF table.header[j] = TimeCol THEN ""
                ELSE IF MatchedClocks # {} /\ j = 2 THEN "clock"
                ELSE Classification(table.header[j])

\* a clock column whose Metadata Map classification is spelled CLOCK, beside a
\* clock signal that is not the clock column
C15_Witness ==
    /\ Done
    /\ table.header = <<h_time_ns, n_clk, n_a, n_s>>
    /\ table.class_row = <<"", "clock", "data", "clock">>
    /\ Classification(n_clk) = "CLOCK"

\* C18: Sampled Rows without a time_ column fail by themselves: build_table
\* still ends and writes the output table.
C18_RowFailureIsolated ==
    (/\ waveform # <<>>
     /\ pc \in {"done", "error"}
     /\ \A j \in 1..Len(headers) : ~is_time_column(headers[j]))
        => table # None

(***************************************************************************)
(* The main programs of classify_system.py and check_system.py, run over   *)
(* a list of RTL files.                                                    *)
(***************************************************************************)
MaxFiles == 2

\* top.v: module top binds the ports a and q of an instance u of mid and the
\* ports a, b and q of an instance w of mid
F_top ==
    <<<<"m", "o", "d", "u", "l", "e", " ", "t", "o", "p", "(">>,
      <<" ", " ", "i", "n", "p", "u", "t", " ", "c", "l", "k", ",">>,
      <<" ", " ", "o", "u", "t", "p", "u", "t", " ", "y">>,
      <<")", ";">>,
      <<" ", " ", "w", "i", "r", "e", " ", "[", "3", ":", "0", "]", " ", "x", ";", " ", "/", "/", " ", "b", "u", "s">>,
      <<" ", " ", "m", "i", "d", " ", "u", "(">>,
      <<" ", " ", " ", " ", ".", "a", "(", "x", ")", ",">>,
      <<" ", " ", " ", " ", ".", "q", "(", "y", ")">>,
      <<" ", " ", ")", ";">>,
      <<" ", " ", "m", "i", "d", " ", "w", "(">>,
      <<" ", " ", " ", " ", ".", "a", "(", "x", ")", ",">>,
      <<" ", " ", " ", " ", ".", "b", "(", "c", "l", "k", ")", ",">>,
      <<" ", " ", " ", " ", ".", "q", "(", "y", ")">>,
      <<" ", " ", ")", ";">>,
      <<"e", "n", "d", "m", "o", "d", "u", "l", "e">>>>

\* mid.v: module mid has the ports a, b and q and passes a to an instance v of leaf
F_mid ==
    <<<<"m", "o", "d", "u", "l", "e", " ", "m", "i", "d", "(">>,
      <<" ", " ", "i", "n", "p", "u", "t", " ", "a", ",">>,
      <<" ", " ", "i", "n", "p", "u", "t", " ", "b", ",">>,
      <<" ", " ", "o", "u", "t", "p", "u", "t", " ", "q">>,
      <<")", ";">>,
      <<" ", " ", "w", "i", "r", "e", " ", "t", ";">>,
      <<" ", " ", "l", "e", "a", "f", " ", "v", "(">>,
      <<" ", " ", " ", " ", ".", "d", "(", "a", ")">>,
      <<" ", " ", ")", ";">>,
      <<"e", "n", "d", "m", "o", "d", "u", "l", "e">>>>

\* mid2.v: another declaration of module mid, with the ports a and q only
F_mid2 ==
    <<<<"m", "o", "d", "u", "l", "e", " ", "m", "i", "d", "(">>,
      <<" ", " ", "i", "n", "p", "u", "t", " ", "a", ",">>,
      <<" ", " ", "o", "u", "t", "p", "u", "t", " ", "q">>,
      <<")", ";">>,
      <<" ", " ", "a", "s", "s", "i", "g", "n", " ", "q", " ", "=", " ", "a", ";">>,
      <<"e", "n", "d", "m", "o", "d", "u", "l", "e">>>>

\* leaf.v: module leaf
F_leaf ==
    <<<<"m", "o", "d", "u", "l", "e", " ", "l", "e", "a", "f", "(">>,
      <<" ", " ", "i", "n", "p", "u", "t", " ", "d">>,
      <<")", ";">>,
      <<"e", "n", "d", "m", "o", "d", "u", "l", "e">>>>

\* frag.v: a fragment with no module declaration, an instance of leaf and an
\* assignment of an 8-bit wire to a 4-bit reg
F_frag ==
    <<<<"/", "/", " ", "m", "o", "d", "u", "l", "e", " ", "g", "h", "o", "s", "t">>,
      <<"w", "i", "r", "e", " ", "[", "7", ":", "0", "]", " ", "w", ";">>,
      <<"r", "e", "g", " ", "[", "3", ":", "0", "]", " ", "r", ";">>,
      <<"a", "s", "s", "i", "g", "n", " ", "r", " ", "=", " ", "w", ";">>,
      <<"l", "e", "a", "f", " ", "v", "(">>,
      <<" ", " ", ".", "d", "(", "w", ")">>,
      <<")", ";">>>>

FilePool == {F_top, F_mid, F_mid2, F_leaf, F_frag}

\* the lists of files a command line can name
RtlFileLists == UNION { [1..n -> FilePool] : n \in 0..MaxFiles }

InitSystem ==
    /\ pc = "sys_start"
    /\ ExtIdle
    /\ tool \in {"classify_system", "check_system"}
    /\ rtl_files \in RtlFileLists
    /\ flattened = <<>>
    /\ missing = <<>>
    /\ all_mismatches = <<>>
    /\ GraphIdle
    /\ NormIdle
    /\ TableIdle

\* len(sys.argv) < 3: the usage message and exit status 1
Usage ==
    /\ pc = "sys_start"
    /\ rtl_files = <<>>
    /\ pc' = "sys_usage"
    /\ UNCHANGED <<normVars, inVars, graphVars, setupVars, outVars, sysVars, extVars>>

\* system_info = analyze_system(rtl_files)
AnalyzeSystem ==
    /\ pc = "sys_start"
    /\ rtl_files # <<>>
    /\ system' = analyze_system(rtl_files)
    /\ pc' = "sys_analyzed"
    /\ UNCHANGED <<normVars, inVars, connectivity, setupVars, outVars, sysVars, extVars>>

\* flattened = flatten_connections(system_info)
FlattenConnections ==
    /\ pc = "sys_analyzed"
    /\ flattened' = flatten_connections(system)
    /\ pc' = "sys_flattened"
    /\ UNCHANGED <<normVars, inVars, graphVars, setupVars, outVars,
                   tool, rtl_files, missing, all_mismatches, extVars>>

\* missing = detect_missing_connections(system_info)
DetectMissing ==
    /\ pc = "sys_flattened"
    /\ missing' = detect_missing_connections(system)
    /\ pc' = "sys_checked"
    /\ UNCHANGED <<normVars, inVars, graphVars, setupVars, outVars,
                   tool, rtl_files, flattened, all_mismatches, extVars>>

\* classify_system: out is written to <out_prefix>_system.json
ClassifyWrite ==
    /\ pc = "sys_checked"
    /\ tool = "classify_system"
    /\ connectivity' = out_json(system, flattened, missing)
    /\ pc' = "sys_done"
    /\ UNCHANGED <<normVars, inVars, system, setupVars, outVars, sysVars, extVars>>

\* check_system: the width pass over rtl_files
WidthPass ==
    /\ pc = "sys_checked"
    /\ tool = "check_system"
    /\ all_mismatches' = width_mismatches_of(rtl_files)
    /\ pc' = "sys_widths"
    /\ UNCHANGED <<normVars, inVars, graphVars, setupVars, outVars,
                   tool, rtl_files, flattened, missing, extVars>>

\* check_system, `if not all_mismatches`: the message "No mismatches found."
\* ends the program
CheckNoMismatches ==
    /\ pc = "sys_widths"
    /\ all_mismatches = <<>>
    /\ pc' = "sys_done"
    /\ UNCHANGED <<normVars, inVars, graphVars, setupVars, outVars, sysVars, extVars>>

\* check_system, the `else` of `if not all_mismatches`: the mismatches are
\* printed and out is written to <out_prefix>_system.json
CheckWrite ==
    /\ pc = "sys_widths"
    /\ all_mismatches # <<>>
    /\ connectivity' = out_json(system, flattened, missing)
    /\ pc' = "sys_done"
    /\ UNCHANGED <<normVars, inVars, system, setupVars, outVars, sysVars, extVars>>

NextSystem ==
    \/ Usage
    \/ AnalyzeSystem
    \/ FlattenConnections
    \/ DetectMissing
    \/ ClassifyWrite
    \/ WidthPass
    \/ CheckNoMismatches
    \/ CheckWrite

SpecSystem == InitSystem /\ [][NextSystem]_vars

(***************************************************************************)
(* Claims about the graph builder's main programs.                         *)
(***************************************************************************)
\* the positions at which analyze_system has returned
Analyzed == {"sys_analyzed", "sys_flattened", "sys_checked", "sys_widths", "sys_done"}

\* the positions at which detect_missing_connections has returned
Checked == {"sys_checked", "sys_widths", "sys_done"}

\* the instance names of the Connection list
Instances == {system.connections[i].instance : i \in 1..Len(system.connections)}

\* the Connections of an instance
ConnectionsOf(inst) ==
    {c \in Range(system.connections) : c.instance = inst}

\* the ports bound in some Connection of an instance
Bound(inst) == {c.child_port : c \in ConnectionsOf(inst)}

\* the ports the module map declares for a submodule type, none when the type
\* is not in the map
Declared(sub) ==
    UNION {Range(system.modules[i][2].ports) :
              i \in {j \in 1..Len(system.modules) : system.modules[j][1] = sub}}

\* a sequence of strings is sorted and holds no string twice
Ascending(q) == \A i, j \in 1..Len(q) : i < j => str_less(q[i], q[j])

\* the issues reported for an instance
IssuesOf(inst) == {i \in 1..Len(missing) : missing[i].instance = inst}

\* C12: detect_missing_connections reports, for each instance name of the
\* Connection list, exactly the sorted list of the ports its submodule type
\* declares and no Connection of the instance binds; it reports nothing for
\* an instance whose declared ports are all bound or whose submodule type is
\* not in the module map.
C12_MissingPorts ==
    pc \in Checked =>
        /\ \A i \in 1..Len(missing) : missing[i].instance \in Instances
        /\ \A inst \in Instances : \A c \in ConnectionsOf(inst) :
              IF Declared(c.child_module) \ Bound(inst) = {}
              THEN IssuesOf(inst) = {}
              ELSE /\ Cardinality(IssuesOf(inst)) = 1
                   /\ \A i \in IssuesOf(inst) :
                         /\ missing[i].submodule = c.child_module
                         /\ Range(missing[i].missing_ports)
                                = Declared(c.child_module) \ Bound(inst)
                         /\ Ascending(missing[i].missing_ports)

\* C12's case: an instance bound to 2 of the 3 ports of its submodule type is
\* reported with exactly the 1 unbound port, and another instance, all of whose
\* declared ports are bound, is not reported.
C12_Witness ==
    /\ pc \in Checked
    /\ \E i \in 1..Len(missing) :
          /\ Cardinality(Bound(missing[i].instance)) = 2
          /\ Cardinality(Declared(missing[i].submodule)) = 3
          /\ Len(missing[i].missing_ports) = 1
    /\ \E inst \in Instances : \E c \in ConnectionsOf(inst) :
          /\ Declared(c.child_module) # {}
          /\ Declared(c.child_module) \subseteq Bound(inst)
          /\ IssuesOf(inst) = {}

\* the module name a file declares
DeclaredName(file) == detect_module_name(rtl_lines_of(file))

\* the last file of the command line that declares the module name of file k
LastDeclaring(k) ==
    CHOOSE j \in 1..Len(rtl_files) :
        /\ DeclaredName(rtl_files[j]) = DeclaredName(rtl_files[k])
        /\ \A l \in (j + 1)..Len(rtl_files) :
              DeclaredName(rtl_files[l]) # DeclaredName(rtl_files[k])

\* the ports and signals extracted from a file
Extracted(file) == detect_ports_and_signals(rtl_lines_of(file))

\* C16: after analyze_system has processed the files in order, the module map
\* has one entry for each declared module name, and it holds the ports and
\* signals of the last file that declares the name.
C16_LastDeclarationWins ==
    pc \in Analyzed =>
        /\ \A i, j \in 1..Len(system.modules) :
              system.modules[i][1] = system.modules[j][1] => i = j
        /\ \A k \in 1..Len(rtl_files) :
              \E i \in 1..Len(system.modules) :
                  /\ system.modules[i][1] = DeclaredName(rtl_files[k])
                  /\ system.modules[i][2] = Extracted(rtl_files[LastDeclaring(k)])

\* C16's case: two files declare the same module name with different ports and
\* signals, and the map holds those of the second file.
C16_Witness ==
    /\ pc \in Analyzed
    /\ Len(rtl_files) = 2
    /\ DeclaredName(rtl_files[1]) = DeclaredName(rtl_files[2])
    /\ Extracted(rtl_files[1]).ports # Extracted(rtl_files[2]).ports
    /\ Extracted(rtl_files[1]).signals # Extracted(rtl_files[2]).signals
    /\ Len(system.modules) = 1
    /\ system.modules[1][2] = Extracted(rtl_files[2])

\* no line of the file holds a module declaration
NoDeclaration(file) ==
    \A i \in 1..Len(rtl_lines_of(file)) :
        module_match(strip(strip_comments(rtl_lines_of(file)[i])))[1] = 0

\* C17: when a file holds no module declaration, analyze_system adds no
\* module-map entry and no Connection under a placeholder module name.
C17_NoModuleFileFails ==
    (pc \in Analyzed /\ \E k \in 1..Len(rtl_files) : NoDeclaration(rtl_files[k]))
        => /\ ~dict_has(system.modules, unknown_module)
           /\ \A i \in 1..Len(system.connections) :
                 system.connections[i].parent_module # unknown_module

\* C19: a run over a list of files that has completed has written the
\* serialized Connectivity Graph, whatever the number of missing-port issues
\* and of width mismatches.
C19_RunWritesGraph ==
    pc = "sys_done" => connectivity = out_json(system, flattened, missing)

\* the fields of the written result other than those of the graph
DefectFields ==
    DOMAIN connectivity
        \ {"modules", "connections_direct", "connections_flattened", "missing_connectivity"}

\* C20: every missing-port issue and every width mismatch a completed run
\* detected is contained in the result the run wrote.
C20_DefectsInResult ==
    (pc = "sys_done" /\ (missing # <<>> \/ all_mismatches # <<>>)) =>
        /\ connectivity # None
        /\ \A i \in 1..Len(missing) : missing[i] \in Range(connectivity.missing_connectivity)
        /\ \A i \in 1..Len(all_mismatches) :
              \E field \in DefectFields : all_mismatches[i] \in Range(connectivity[field])

(***************************************************************************)
(* classify_system.py, detect_instantiations step by step: the loop        *)
(* `while i < n` over the lines of one file, one action for each branch of *)
(* its body, and analyze_system's Connections of the Instances it found.   *)
(***************************************************************************)
MaxChunks == 2  \* code fragments after the module line of the scanned file

\* the module line of the scanned file
c_module == <<<<"m", "o", "d", "u", "l", "e", " ", "t", "o", "p", ";">>>>

\* an instantiation of mid that opens and closes on one line
c_inline_u ==
    <<<<"m", "i", "d", " ", "u", "(", ".", "a", "(", "x", ")", ")", ";">>>>

\* an instantiation of leaf that opens and closes on one line
c_inline_v ==
    <<<<"l", "e", "a", "f", " ", "v", "(", ".", "d", "(", "y", ")", ")", ";">>>>

\* an instantiation over several lines
c_multi ==
    <<<<"m", "i", "d", " ", "m", "(">>,
      <<" ", " ", ".", "a", "(", "x", ")", ",">>,
      <<" ", " ", ".", "q", "(", "y", ")">>,
      <<")", ";">>>>

\* an instantiation that is never closed
c_open ==
    <<<<"m", "i", "d", " ", "w", "(">>,
      <<" ", " ", ".", "a", "(", "x", ")">>>>

\* an instantiation that binds the port a twice
c_dup ==
    <<<<"m", "i", "d", " ", "d", "(">>,
      <<" ", " ", ".", "a", "(", "x", ")", ",">>,
      <<" ", " ", ".", "a", "(", "y", ")">>,
      <<")", ";">>>>

\* a parameterized instantiation over several lines
c_params ==
    <<<<"m", "i", "d", " ", "#", "(">>,
      <<" ", " ", ".", "W", "(", "2", ")">>,
      <<")", " ", "p", " ", "(">>,
      <<" ", " ", ".", "a", "(", "x", ")">>,
      <<")", ";">>>>

\* a parameter list that no instance name follows
c_params_open ==
    <<<<"m", "i", "d", " ", "#", "(">>,
      <<" ", " ", ".", "W", "(", "2", ")">>>>

\* a line that opens nothing
c_assign ==
    <<<<"a", "s", "s", "i", "g", "n", " ", "y", " ", "=", " ", "x", ";">>>>

ChunkPool == {c_inline_u, c_inline_v, c_multi, c_open, c_dup, c_params, c_params_open, c_assign}

\* the scanned files: the module line and up to MaxChunks fragments
RECURSIVE ScanInputs(_)
ScanInputs(n) ==
    IF n = 0 THEN {c_module}
    ELSE ScanInputs(n - 1) \cup { ls \o c : ls \in ScanInputs(n - 1), c \in ChunkPool }

InitScan ==
    /\ pc = "scan"
    /\ scan_lines \in ScanInputs(MaxChunks)
    /\ scan_index = 1
    /\ instantiations = <<>>
    /\ system = None
    /\ connectivity = None
    /\ conn_map = <<>>
    /\ conn_order = <<>>
    /\ NormIdle
    /\ TableIdle
    /\ SysIdle
    /\ MergeIdle
    /\ UserIdle

\* `if m_inline:` ... `instantiations.append(...)`, `i += 1`, `continue`
ScanInline ==
    /\ pc = "scan"
    /\ scan_index <= Len(scan_lines)
    /\ \E step \in {scan_step(scan_lines, scan_index)} :
        /\ step.branch = "inline"
        /\ instantiations' = Append(instantiations, step.found[1])
        /\ scan_index' = step.i
    /\ UNCHANGED <<pc, scan_lines, normVars, inVars, graphVars, setupVars, outVars, sysVars,
                   mergeVars, userVars>>

\* `if m_params_start:` with `inst_line_idx is not None` ... `continue`
ScanParams ==
    /\ pc = "scan"
    /\ scan_index <= Len(scan_lines)
    /\ \E step \in {scan_step(scan_lines, scan_index)} :
        /\ step.branch = "params"
        /\ instantiations' = Append(instantiations, step.found[1])
        /\ scan_index' = step.i
    /\ UNCHANGED <<pc, scan_lines, normVars, inVars, graphVars, setupVars, outVars, sysVars,
                   mergeVars, userVars>>

\* `if m_params_start:` with no line that names an instance, then `i += 1`
ScanParamsNoInstance ==
    /\ pc = "scan"
    /\ scan_index <= Len(scan_lines)
    /\ \E step \in {scan_step(scan_lines, scan_index)} :
        /\ step.branch = "params_no_instance"
        /\ instantiations' = instantiations
        /\ scan_index' = step.i
    /\ UNCHANGED <<pc, scan_lines, normVars, inVars, graphVars, setupVars, outVars, sysVars,
                   mergeVars, userVars>>

\* neither pattern matches the line: `i += 1`
ScanNoMatch ==
    /\ pc = "scan"
    /\ scan_index <= Len(scan_lines)
    /\ \E step \in {scan_step(scan_lines, scan_index)} :
        /\ step.branch = "no_match"
        /\ instantiations' = instantiations
        /\ scan_index' = step.i
    /\ UNCHANGED <<pc, scan_lines, normVars, inVars, graphVars, setupVars, outVars, sysVars,
                   mergeVars, userVars>>

\* the loop condition `i < n` fails: `return instantiations`
ScanReturn ==
    /\ pc = "scan"
    /\ scan_index > Len(scan_lines)
    /\ pc' = "scanned"
    /\ UNCHANGED <<scanVars, normVars, inVars, graphVars, setupVars, outVars, sysVars,
                   mergeVars, userVars>>

\* analyze_system: the module-map entry of the file and `for inst in insts`
\* with its inner loop over inst["connections"]
ScanConnections ==
    /\ pc = "scanned"
    /\ system' = analyzed([modules |-> <<>>, connections |-> <<>>],
                          detect_module_name(scan_lines),
                          detect_ports_and_signals(scan_lines), instantiations)
    /\ pc' = "analyzed"
    /\ UNCHANGED <<scanVars, normVars, inVars, connectivity, setupVars, outVars, sysVars,
                   mergeVars, userVars>>

NextScan ==
    \/ ScanInline
    \/ ScanParams
    \/ ScanParamsNoInstance
    \/ ScanNoMatch
    \/ ScanReturn
    \/ ScanConnections

SpecScan == InitScan /\ [][NextScan]_vars

\* the loop `while i < n` is at a line of the file
ScanInLoop == pc = "scan" /\ scan_index <= Len(scan_lines)

\* an iteration of the loop: a step from a line of the file that stays in the
\* loop, in whichever of the four branches
ScanIterates == ScanInLoop /\ pc' = "scan"

\* The scan under the scheduling of a sequential program: the interpreter
\* runs the next iteration and the return when it can. The
\* four branches are exhaustive, so an iteration is enabled exactly when
\* ScanInLoop holds, and its weak fairness is written with that guard.
SpecScanLive ==
    /\ InitScan
    /\ [][NextScan]_vars
    /\ ([]<>(~ScanInLoop) \/ []<><<ScanIterates>>_vars)
    /\ WF_vars(ScanReturn)

(***************************************************************************)
(* Claims on the instantiation scan. An instantiation is read off the      *)
(* lines themselves: the line that names the instance, and the first line  *)
(* from there on that holds ");".                                          *)
(***************************************************************************)
Scanned == pc \in {"scanned", "analyzed"}

\* the closing line of an instantiation whose instance is named on line k: the
\* first line from k on that holds ");", the last line when there is none
own_close(lines, k) ==
    IF \E j \in k..Len(lines) : Contains(lines[j], <<")", ";">>)
    THEN Least({j \in k..Len(lines) : Contains(lines[j], <<")", ";">>)})
    ELSE Len(lines)

NoOpening == [at |-> 0]

\* a parameterized instantiation opened on line k, its instance named on line f[1]
opening_params(lines, k, line, w, f) ==
    IF w[1] > 0 /\ f[1] > 0
    THEN [at |-> f[1], submodule |-> SubSeq(line, w[1], w[2]),
          instance |-> SubSeq(strip_comments(lines[f[1]]), f[2], f[3]), after |-> f[3]]
    ELSE NoOpening

opening_inline(lines, k, line, g) ==
    IF g[1] > 0
    THEN [at |-> k, submodule |-> SubSeq(line, g[1], g[2]),
          instance |-> SubSeq(line, g[3], g[4]), after |-> g[4]]
    ELSE opening_params(lines, k, line, m_params_start(line), inst_line(lines, k))

\* the instantiation that line k opens: the line `at` that names the
\* instance, the position `after` which its bindings begin
opening(lines, k) == opening_inline(lines, k, strip_comments(lines[k]), m_inline(strip_comments(lines[k])))

\* the instantiations of the lines from k on, in source order, each with the
\* line `to` of its own closing
RECURSIVE instantiations_in(_, _)
opened(lines, k, o) ==
    IF o.at = 0 THEN instantiations_in(lines, k + 1)
    ELSE <<[at |-> o.at, submodule |-> o.submodule, instance |-> o.instance,
            after |-> o.after, to |-> own_close(lines, o.at)]>>
         \o instantiations_in(lines, own_close(lines, o.at) + 1)

instantiations_in(lines, k) ==
    IF k > Len(lines) THEN <<>> ELSE opened(lines, k, opening(lines, k))

\* the .port(expr) occurrences of the lines from..to, in source order
RECURSIVE occurrences_in(_, _, _)
occurrences_in(lines, from, to) ==
    IF from > to THEN <<>>
    ELSE extract_port_pairs(strip_comments(lines[from])) \o occurrences_in(lines, from + 1, to)

\* the .port(expr) occurrences between the opening of o and the line `to`
occurrences(lines, o, to) ==
    extract_port_pairs(Drop(strip_comments(lines[o.at]), o.after + 1))
    \o occurrences_in(lines, o.at + 1, to)

\* the bindings of an Instance are those of the occurrences: every occurrence's
\* port is bound, and every binding is an occurrence
BindsOccurrences(inst, occ) ==
    /\ \A k \in 1..Len(occ) : dict_has(inst.connections, occ[k][1])
    /\ \A k \in 1..Len(inst.connections) : inst.connections[k] \in Range(occ)

InstanceOf(inst, lines, o) ==
    /\ inst.submodule = o.submodule
    /\ inst.instance = o.instance
    /\ BindsOccurrences(inst, occurrences(lines, o, o.to))

InstancesOf(insts, lines, os) ==
    /\ Len(insts) = Len(os)
    /\ \A n \in 1..Len(os) : InstanceOf(insts[n], lines, os[n])

\* C21: detect_instantiations returns one Instance for each instantiation of
\* the lines, in source order, and the bindings of each are the .port(expr)
\* between its opening and its own closing ");" -- also when an instantiation
\* that opens and closes on one line is followed by another.
C21_OneInstancePerInstantiation ==
    Scanned => InstancesOf(instantiations, scan_lines, instantiations_in(scan_lines, 1))

\* C22: every iteration of the scan leaves a larger line index than it found,
\* in each of its branches, and the scan ends.
C22_ScanTerminates ==
    /\ [][pc = "scan" /\ pc' = "scan" => scan_index' > scan_index]_vars
    /\ <>(pc = "scanned")

\* a scan that took the parameterized branch, the no-match branch and the
\* inline branch has ended
C22_Witness ==
    /\ pc = "analyzed"
    /\ scan_lines = c_module \o c_params \o c_multi
    /\ Len(instantiations) = 2
    /\ scan_index > Len(scan_lines)

\* line k opens an instantiation in the inline form that no later line closes
OpensUnclosed(lines, k) ==
    /\ k <= Len(lines)
    /\ m_inline(strip_comments(lines[k]))[1] > 0
    /\ \A j \in (k + 1)..Len(lines) : ~Contains(lines[j], <<")", ";">>)

\* C23: when the scan is at a line that opens an instantiation and no later
\* line holds ");", the iteration raises nothing: it appends one Instance whose
\* bindings are the .port(expr) occurrences from the opening line to the end
\* of the input, leaves the earlier Instances as they are, and ends the scan.
C23_UnclosedBlockToEndOfInput ==
    [][(pc = "scan" /\ OpensUnclosed(scan_lines, scan_index))
        => /\ pc' = "scan"
           /\ scan_index' > Len(scan_lines)
           /\ Len(instantiations') = Len(instantiations) + 1
           /\ SubSeq(instantiations', 1, Len(instantiations)) = instantiations
           /\ InstanceOf(instantiations'[Len(instantiations')], scan_lines,
                         opening(scan_lines, scan_index) @@ [to |-> Len(scan_lines)])]_vars

\* the scan of a closed instantiation followed by an unclosed one has ended
\* with the unclosed w bound to a
C23_Witness ==
    /\ pc = "scanned"
    /\ scan_lines = c_module \o c_multi \o c_open
    /\ Len(instantiations) = 2
    /\ instantiations[2].instance = <<"w">>
    /\ instantiations[2].connections = << <<<<"a">>, <<"x">>>> >>

\* the Connections the claim has for the instantiations os of module m: one for
\* each .port(expr) occurrence, in source order
RECURSIVE connections_in(_, _, _)
connection_of(m, o, pair) ==
    [parent_module |-> m, child_module |-> o.submodule, instance |-> o.instance,
     child_port |-> pair[1], parent_signal |-> pair[2]]

connections_for(m, o, occ) == [k \in 1..Len(occ) |-> connection_of(m, o, occ[k])]

connections_in(m, lines, os) ==
    IF os = <<>> THEN <<>>
    ELSE connections_for(m, Head(os), occurrences(lines, Head(os), Head(os).to))
         \o connections_in(m, lines, Tail(os))

\* how often c is an element of the sequence q
Count(q, c) == Cardinality({k \in 1..Len(q) : q[k] = c})

SameConnections(q, r) == \A c \in Range(q) \cup Range(r) : Count(q, c) = Count(r, c)

\* C24: for every Instance the graph builder emits exactly one Connection for
\* each .port(expr) occurrence of its block, also when a port is bound more
\* than once, each with the file's module as parent_module, the submodule type
\* as child_module and the instance name as instance.
C24_OneConnectionPerOccurrence ==
    (pc = "analyzed" /\ InstancesOf(instantiations, scan_lines, instantiations_in(scan_lines, 1)))
        => SameConnections(system.connections,
                           connections_in(detect_module_name(scan_lines), scan_lines,
                                          instantiations_in(scan_lines, 1)))

(***************************************************************************)
(* classify_system.py, flatten_connections on the direct Connections of a  *)
(* hierarchy of four levels: top instantiates mid, mid instantiates leaf,  *)
(* leaf instantiates cell.                                                 *)
(***************************************************************************)
MaxChain == 3   \* direct Connections of the hierarchy

n_cell == <<"c", "e", "l", "l">>
n_w == <<"w">>
n_b == <<"b">>
n_ab == <<"a", "b">>
n_c == <<"c">>
n_d == <<"d">>
n_concat_a_b == <<"{", "a", ",", "b", "}">>

\* the Connections of the hierarchy: top binds a port a, b or ab of mid, mid
\* binds the port c of leaf to an expression over its own ports, leaf binds
\* the port d of cell to c
ChainPool ==
    { Connection(n_top, n_s, n_u, n_mid, cp) : cp \in {n_a, n_b, n_ab} }
    \cup { Connection(n_mid, ps, n_v, n_leaf, n_c) : ps \in {n_concat_a_b, n_ab, n_a} }
    \cup { Connection(n_leaf, n_c, n_w, n_cell, n_d) }

ChainLists == UNION { [1..n -> ChainPool] : n \in 0..MaxChain }

InitFlatten ==
    /\ pc = "flatten_start"
    /\ ExtIdle
    /\ system \in { bare_system(cs) : cs \in ChainLists }
    /\ connectivity = None
    /\ conn_map = <<>>
    /\ conn_order = <<>>
    /\ NormIdle
    /\ TableIdle
    /\ SysIdle

\* flattened = flatten_connections(system_info)
FlattenOnce ==
    /\ pc = "flatten_start"
    /\ flattened' = flatten_connections(system)
    /\ pc' = "flatten_done"
    /\ UNCHANGED <<normVars, inVars, graphVars, setupVars, outVars,
                   tool, rtl_files, missing, all_mismatches, extVars>>

NextFlatten == FlattenOnce

SpecFlatten == InitFlatten /\ [][NextFlatten]_vars

\* the identifier tokens of an expression: its maximal runs of word characters
\* that begin with a letter or an underscore
Identifiers(expr) ==
    { SubSeq(expr, p[1], p[2]) :
        p \in { q \in (1..Len(expr)) \X (1..Len(expr)) :
                  /\ q[1] <= q[2]
                  /\ IsIdentStart(expr[q[1]])
                  /\ \A k \in q[1]..q[2] : IsWordChar(expr[k])
                  /\ (q[1] = 1 \/ ~IsWordChar(expr[q[1] - 1]))
                  /\ (q[2] = Len(expr) \/ ~IsWordChar(expr[q[2] + 1])) } }

\* the ordered pairs <<i, j>> of direct Connections that compose: the j-th is a
\* Connection of the i-th's child module and names the i-th's child_port
Composable(cs) ==
    { p \in (1..Len(cs)) \X (1..Len(cs)) :
        /\ cs[p[2]].parent_module = cs[p[1]].child_module
        /\ cs[p[1]].child_port \in Identifiers(cs[p[2]].parent_signal) }

\* the pairs whose composition is the Flattened Connection e
ComposedTo(cs, e) == { p \in Composable(cs) : flattened_entry(cs[p[1]], cs[p[2]]) = e }

\* C25: flatten_connections emits exactly one Flattened Connection for each
\* ordered pair (C, D) of direct Connections with D.parent_module =
\* C.child_module and C.child_port among the identifier tokens of
\* D.parent_signal, and nothing else; it composes two Connections only, so no
\* entry links a signal of top to a port of cell, three levels down.
C25_OneEntryPerComposablePair ==
    pc = "flatten_done" =>
        /\ \A e \in Range(flattened) : Count(flattened, e) = Cardinality(ComposedTo(system.connections, e))
        /\ \A p \in Composable(system.connections) :
              flattened_entry(system.connections[p[1]], system.connections[p[2]]) \in Range(flattened)
        /\ \A k \in 1..Len(flattened) :
              ~(flattened[k].from_module = n_top /\ flattened[k].to_module = n_cell)

\* the chain top -> mid -> leaf -> cell with the port a of mid named inside
\* the concatenation {a,b}: one pass links top to leaf and mid to cell only
C25_Witness ==
    /\ pc = "flatten_done"
    /\ system.connections = <<Connection(n_top, n_s, n_u, n_mid, n_a),
                              Connection(n_mid, n_concat_a_b, n_v, n_leaf, n_c),
                              Connection(n_leaf, n_c, n_w, n_cell, n_d)>>
    /\ Len(flattened) = 2
    /\ flattened[1].to_module = n_leaf
    /\ flattened[2].from_module = n_mid

(***************************************************************************)
(* check_system.py, detect_width_mismatches on the lines of one file: the  *)
(* declarations of w, r, cnt and p and up to MaxAssigns assignments.       *)
(***************************************************************************)
MaxAssigns == 2 \* assignment lines of the file

\* w is 8 bits wide, r and cnt 4 bits, p has the symbolic width W
width_declarations ==
    <<<<"w", "i", "r", "e", " ", "[", "7", ":", "0", "]", " ", "w", ";">>,
      <<"r", "e", "g", " ", "[", "3", ":", "0", "]", " ", "r", ";">>,
      <<"r", "e", "g", " ", "[", "3", ":", "0", "]", " ", "c", "n", "t", ";">>,
      <<"r", "e", "g", " ", "[", "W", "-", "1", ":", "0", "]", " ", "p", ";">>>>

\* an assignment of an 8-bit signal to a 4-bit signal
a_mismatch == <<"a", "s", "s", "i", "g", "n", " ", "r", " ", "=", " ", "w", ";">>

\* a comparison whose left side is a literal constant
a_literal_lhs == <<"i", "f", " ", "(", "8", " ", "<", "=", " ", "c", "n", "t", ")">>

\* an assignment of an FSM state label
a_fsm_rhs == <<"s", "t", "a", "t", "e", " ", "<", "=", " ", "I", "D", "L", "E", ";">>

\* a comparison whose left side is an FSM state label
a_fsm_lhs == <<"i", "f", " ", "(", "S", "T", "A", "R", "T", " ", "<", "=", " ", "c", "n", "t", ")">>

\* an assignment to a signal of symbolic width
a_symbolic_lhs == <<"p", " ", "=", " ", "w", ";">>

\* an assignment of a part select of symbolic width
a_symbolic_rhs == <<"r", " ", "=", " ", "w", "[", "W", "-", "1", ":", "0", "]", ";">>

\* an assignment of a 2-bit part select to a 4-bit signal
a_select == <<"r", " ", "=", " ", "w", "[", "1", ":", "0", "]", ";">>

\* an assignment of a literal constant
a_literal_rhs == <<"c", "n", "t", " ", "<", "=", " ", "8", ";">>

AssignPool == {a_mismatch, a_literal_lhs, a_fsm_rhs, a_fsm_lhs, a_symbolic_lhs, a_symbolic_rhs, a_select, a_literal_rhs}

AssignLists == UNION { [1..n -> AssignPool] : n \in 0..MaxAssigns }

InitWidth ==
    /\ pc = "width_start"
    /\ ExtIdle
    /\ tool = "check_system"
    /\ rtl_files \in { <<width_declarations \o as>> : as \in AssignLists }
    /\ flattened = <<>>
    /\ missing = <<>>
    /\ all_mismatches = <<>>
    /\ GraphIdle
    /\ NormIdle
    /\ TableIdle

\* the width pass of check_system's main program over the file
DetectWidths ==
    /\ pc = "width_start"
    /\ all_mismatches' = width_mismatches_of(rtl_files)
    /\ pc' = "width_done"
    /\ UNCHANGED <<normVars, inVars, graphVars, setupVars, outVars,
                   tool, rtl_files, flattened, missing, extVars>>

NextWidth == DetectWidths

SpecWidth == InitWidth /\ [][NextWidth]_vars

\* a side of an assignment that the width pass is to leave alone
Exempt(side) == is_literal(side) \/ is_keyword(side) \/ is_fsm_state(side)

\* the declared width of a side is symbolic
Symbolic(lines, side) ==
    /\ dict_has(extract_signal_declarations(lines), side)
    /\ ~is_int(dict_get(extract_signal_declarations(lines), side))

\* C26: every issue of detect_width_mismatches has integer widths that
\* differ, and neither of its sides is a literal constant, a keyword or an FSM
\* state label, nor of symbolic width.
C26_NoIssueForExemptSides ==
    pc = "width_done" =>
        \A k \in 1..Len(all_mismatches) :
            /\ all_mismatches[k].lhs_width \in Nat
            /\ all_mismatches[k].rhs_width \in Nat
            /\ all_mismatches[k].lhs_width # all_mismatches[k].rhs_width
            /\ ~Exempt(all_mismatches[k].rhs)
            /\ ~Symbolic(rtl_files[1], all_mismatches[k].rhs)
            /\ ~Symbolic(rtl_files[1], all_mismatches[k].lhs)
            /\ ~Exempt(all_mismatches[k].lhs)

(***************************************************************************)
(* Claims on find_connected_signal and match_waveform_signals, under the   *)
(* table builder (Spec).                                                   *)
(***************************************************************************)
\* header h matches candidate c under strategy s: 1 exact, 2 normalized-equal,
\* 3 last-component, 4 suffix
Matches(s, c, h) ==
    CASE s = 1 -> h = c
      [] s = 2 -> normalize(h) = normalize(c)
      [] s = 3 -> lower(sub_array_index(last_component(h), 1)) = lower(last_component(c))
      [] s = 4 -> endswith(h, <<".">> \o c) \/ endswith(h, <<"_">> \o c)

\* column col is selected for candidate number n by strategy s: no earlier
\* column matches under s, no earlier strategy matches any column for the
\* candidate, and no earlier candidate matches any column under any strategy
SelectedBy(cands, hs, n, s, col) ==
    /\ Matches(s, cands[n], hs[col])
    /\ \A k \in 1..(col - 1) : ~Matches(s, cands[n], hs[k])
    /\ \A s2 \in 1..(s - 1) : \A k \in 1..Len(hs) : ~Matches(s2, cands[n], hs[k])
    /\ \A n2 \in 1..(n - 1) : \A s2 \in 1..4 : \A k \in 1..Len(hs) : ~Matches(s2, cands[n2], hs[k])

\* r is the return value the claim has for the candidates cands
SelectedReturn(cands, hs, r) ==
    IF r.col = 0
    THEN \A n \in 1..Len(cands) : \A s \in 1..4 : \A k \in 1..Len(hs) : ~Matches(s, cands[n], hs[k])
    ELSE /\ r.name = hs[r.col]
         /\ \E n \in 1..Len(cands) : \E s \in 1..4 : SelectedBy(cands, hs, n, s, r.col)

\* C27: for one candidate find_connected_signal selects the column by the
\* earliest strategy that matches (exact, normalized-equal, last-component,
\* suffix) and within a strategy the first header in column order; a
\* candidate goes through all four strategies before the next candidate is
\* tried. The columns build_table records as connected are the ones selected.
C27_EarliestStrategyFirstColumn ==
    pc \in {"rows", "done"} =>
        /\ \A sig \in DOMAIN conn_order :
              SelectedReturn(conn_order[sig], headers,
                             find_connected_signal(sig, headers, conn_map, conn_order))
        /\ \A k \in 1..Len(filled_signals) :
              /\ filled_signals[k][1] \in DOMAIN conn_order
              /\ \E col \in 1..Len(headers) :
                    SelectedReturn(conn_order[filled_signals[k][1]], headers,
                                   [name |-> filled_signals[k][2], col |-> col])

\* the first candidate p of a finds the column tb.dut.w.p by its last
\* component, although the second candidate u.p matches tb.dut.u.p by the
\* earlier normalized strategy
C27_Witness ==
    /\ pc = "done"
    /\ headers = <<h_time_ns, h_tb_dut_a, h_tb_dut_w_p, h_tb_dut_u_p>>
    /\ n_a \in DOMAIN conn_order
    /\ Len(conn_order[n_a]) = 2
    /\ conn_order[n_a][1] = n_p
    /\ Matches(2, conn_order[n_a][2], h_tb_dut_u_p)
    /\ filled_signals = << <<n_a, h_tb_dut_w_p>> >>

\* the waveform columns match_waveform_signals attributes to metadata signal m
Attributed(m) ==
    { k \in 1..Len(headers) : \E i \in 1..Len(signal_map) : signal_map[i] = <<headers[k], m>> }

\* C28: match_waveform_signals attributes each waveform column to at most one
\* metadata signal, and when several columns are attributed to one metadata
\* signal build_table takes the direct value of the signal, in every row,
\* from the first of them in header order: the cell holds that column's value
\* whenever no connected value replaces it.
C28_FirstAttributedColumn ==
    /\ pc \in {"rows", "done"} =>
          \A k \in 1..Len(headers) :
              Cardinality({ i \in 1..Len(signal_map) : signal_map[i][1] = headers[k] }) <= 1
    /\ Done =>
          \A m \in Targets : \A i \in 1..Len(waveform) :
              Attributed(m) # {} =>
                  /\ Direct(i, m) = waveform[i][Least(Attributed(m))]
                  /\ (~Absent(Direct(i, m)) \/ conn_map = <<>>) => Cell(i, m) = Direct(i, m)

\* the columns tb.dut.w.p and tb.dut.u.p are both attributed to p; the row has
\* no value for the first and 1 for the second, and the cell of p is empty
C28_Witness ==
    /\ Done
    /\ headers = <<h_time_ns, h_tb_dut_w_p, h_tb_dut_u_p>>
    /\ Attributed(n_p) = {2, 3}
    /\ Len(waveform) = 1
    /\ waveform[1] = <<v_0, v_empty, v_1>>
    /\ Cell(1, n_p) = v_empty

(***************************************************************************)
(* Preprocessing/mapping/merge_map_signals.py: merge_all over the mapped   *)
(* tables of an output directory. A file is the list of its rows as        *)
(* csv.reader returns them; a cell is a string.                            *)
(***************************************************************************)
MaxTables == 3  \* *_mapped.csv files of the output directory

\* a_mapped.csv: the column a, two rows
M_a ==
    <<<<<<"t", "i", "m", "e">>, <<"d", "a", "t", "a">>>>,
      <<<<"t", "i", "m", "e", "_", "n", "s">>, <<"a">>>>,
      <<<<"0">>, <<"1">>>>,
      <<<<"5">>, <<"0">>>>>>

\* ab_mapped.csv: the columns a and b under other classes, one row
M_ab ==
    <<<<<<"t", "i", "m", "e">>, <<"c", "o", "n", "t", "r", "o", "l">>, <<"s", "t", "a", "t", "u", "s">>>>,
      <<<<"t", "i", "m", "e", "_", "n", "s">>, <<"a">>, <<"b">>>>,
      <<<<"0">>, <<"x">>, <<"z">>>>>>

\* ba_mapped.csv: the columns b and a, three rows, the second short of a cell, the third with a cell too many
M_ba ==
    <<<<<<"t", "i", "m", "e">>, <<"r", "e", "s", "e", "t">>, <<"o", "t", "h", "e", "r">>>>,
      <<<<"t", "i", "m", "e", "_", "n", "s">>, <<"b">>, <<"a">>>>,
      <<<<"0">>, <<"1">>, <<"1">>>>,
      <<<<"5">>, <<"0">>>>,
      <<<<"9">>, <<"1">>, <<"0">>, <<"1">>>>>>

\* c_mapped.csv: the column c and no row
M_c ==
    <<<<<<"t", "i", "m", "e">>, <<"c", "l", "o", "c", "k">>>>,
      <<<<"t", "i", "m", "e", "_", "n", "s">>, <<"c">>>>>>

TablePool == {M_a, M_ab, M_ba, M_c}

\* sorted(glob.glob(...)): the files found
MappedFileLists == UNION { [1..n -> TablePool] : n \in 0..MaxTables }

\* load_csv(path): rows[0], rows[1], rows[2:]
load_csv(file_rows) ==
    [class_row |-> file_rows[1], header_row |-> file_rows[2],
     data_rows |-> SubSeq(file_rows, 3, Len(file_rows))]

\* [""] * n
blanks(n) == [k \in 1..n |-> <<>>]

\* a pad that extends short rows and leaves long rows as they are (the mutant
\* of C29)
pad_short_only(data_row, length) ==
    IF Len(data_row) < length THEN data_row \o blanks(length - Len(data_row)) ELSE data_row

\* pad(row, length)
pad(data_row, length) ==
    IF Len(data_row) < length THEN data_row \o blanks(length - Len(data_row))
    ELSE SubSeq(data_row, 1, length)

\* keep_idx2: the columns of head2 whose name is not in head1, in order
RECURSIVE keep_idx2(_, _, _)
keep_idx2(head1, head2, j) ==
    IF j > Len(head2) THEN <<>>
    ELSE (IF head2[j] \in Range(head1) THEN <<>> ELSE <<j>>) \o keep_idx2(head1, head2, j + 1)

\* [r[j] for j in keep]
kept(r, keep) == [k \in 1..Len(keep) |-> r[keep[k]]]

\* r1 or r2 of the loop over range(max_len): row i of data padded to length,
\* a blank row when data has no row i
padded_row(data, i, length) ==
    IF i <= Len(data) THEN pad(data[i], length) ELSE blanks(length)

\* max(a, b)
max(a, b) == IF a >= b THEN a ELSE b

\* merged_data
merged_data(head1, data1, head2, data2, keep) ==
    [i \in 1..max(Len(data1), Len(data2)) |->
        padded_row(data1, i, Len(head1)) \o kept(padded_row(data2, i, Len(head2)), keep)]

merge_kept(t1, t2, keep) ==
    [class_row |-> t1.class_row \o kept(t2.class_row, keep),
     header_row |-> t1.header_row \o kept(t2.header_row, keep),
     data_rows |-> merged_data(t1.header_row, t1.data_rows, t2.header_row, t2.data_rows, keep)]

\* merge_two_tables(class1, head1, data1, class2, head2, data2)
merge_two_tables(t1, t2) == merge_kept(t1, t2, keep_idx2(t1.header_row, t2.header_row, 1))

InitMerge ==
    /\ pc = "merge_start"
    /\ mapped_files \in MappedFileLists
    /\ merge_pos = 0
    /\ merged_table = None
    /\ out_file = None
    /\ NormIdle
    /\ TableIdle
    /\ GraphIdle
    /\ SysIdle
    /\ ScanIdle
    /\ UserIdle

\* __main__: `if len(mapped_files) < 2:` ... sys.exit(1)
TooFewFiles ==
    /\ pc = "merge_start"
    /\ Len(mapped_files) < 2
    /\ pc' = "merge_exit_1"
    /\ UNCHANGED <<normVars, inVars, graphVars, setupVars, outVars, sysVars, scanVars,
                   mergeVars, userVars>>

\* merge_all: class_row, header_row, data_rows = load_csv(files[0])
LoadFirst ==
    /\ pc = "merge_start"
    /\ Len(mapped_files) >= 2
    /\ merged_table' = load_csv(mapped_files[1])
    /\ merge_pos' = 1
    /\ pc' = "merging"
    /\ UNCHANGED <<normVars, inVars, graphVars, setupVars, outVars, sysVars, scanVars,
                   mapped_files, out_file, userVars>>

\* one iteration of `for f in files[1:]`
MergeNext ==
    /\ pc = "merging"
    /\ merge_pos < Len(mapped_files)
    /\ merged_table' = merge_two_tables(merged_table, load_csv(mapped_files[merge_pos + 1]))
    /\ merge_pos' = merge_pos + 1
    /\ UNCHANGED <<pc, normVars, inVars, graphVars, setupVars, outVars, sysVars, scanVars,
                   mapped_files, out_file, userVars>>

\* the rows written to out_file after the loop
WriteMerged ==
    /\ pc = "merging"
    /\ merge_pos = Len(mapped_files)
    /\ out_file' = <<merged_table.class_row, merged_table.header_row>> \o merged_table.data_rows
    /\ pc' = "merged"
    /\ UNCHANGED <<normVars, inVars, graphVars, setupVars, outVars, sysVars, scanVars,
                   mapped_files, merge_pos, merged_table, userVars>>

NextMerge == TooFewFiles \/ LoadFirst \/ MergeNext \/ WriteMerged

SpecMerge == InitMerge /\ [][NextMerge]_vars

\* the position of column n in a header row, 0 when the header has no such column
ColumnAt(header_row, n) ==
    IF \E j \in 1..Len(header_row) : header_row[j] = n
    THEN Least({j \in 1..Len(header_row) : header_row[j] = n})
    ELSE 0

\* the first of the merged files that has a column n
FirstWith(n) == Least({f \in 1..Len(mapped_files) : ColumnAt(mapped_files[f][2], n) > 0})

\* the cell of file rows in line r (1 the class row, 2 the header row, from 3
\* on the data rows) and column j, "" where the file has no such cell
CellOf(file_rows, r, j) ==
    IF r <= Len(file_rows) /\ j <= Len(file_rows[r]) THEN file_rows[r][j] ELSE <<>>

\* the column names of all merged files
AllNames == UNION { Range(mapped_files[f][2]) : f \in 1..Len(mapped_files) }

\* C29: merge_all over two or more tables whose classification and header rows
\* have equal length writes a table in which the classification row, the
\* header row and every data row have the same length; the first table's
\* columns come first in their original order; a column name that occurs in
\* several tables appears once and takes its class and its values from the
\* first table that has it; the number of data rows is the largest row count
\* of the tables, shorter tables padded with empty cells.
C29_MergedTable ==
    pc = "merged" =>
        /\ \A r \in 1..Len(out_file) : Len(out_file[r]) = Len(out_file[2])
        /\ SubSeq(out_file[2], 1, Len(mapped_files[1][2])) = mapped_files[1][2]
        /\ Range(out_file[2]) = AllNames
        /\ \A n \in AllNames : Cardinality({j \in 1..Len(out_file[2]) : out_file[2][j] = n}) = 1
        /\ \A j \in 1..Len(out_file[2]) : \A r \in (1..Len(out_file)) \ {2} :
              out_file[r][j] = CellOf(mapped_files[FirstWith(out_file[2][j])], r,
                                      ColumnAt(mapped_files[FirstWith(out_file[2][j])][2],
                                               out_file[2][j]))
        /\ \A f \in 1..Len(mapped_files) : Len(out_file) >= Len(mapped_files[f])
        /\ \E f \in 1..Len(mapped_files) : Len(out_file) = Len(mapped_files[f])

\* the merge of ab_mapped.csv, ba_mapped.csv and c_mapped.csv: a and b from
\* the first file, c from the third, three data rows of which the first
\* file has one
C29_Witness ==
    /\ pc = "merged"
    /\ mapped_files = <<M_ab, M_ba, M_c>>
    /\ out_file[2] = <<<<"t", "i", "m", "e", "_", "n", "s">>, <<"a">>, <<"b">>, <<"c">>>>
    /\ Len(out_file) = 5
    /\ out_file[3] = <<<<"0">>, <<"x">>, <<"z">>, <<>>>>
    /\ out_file[5] = <<<<>>, <<>>, <<>>, <<>>>>

(***************************************************************************)
(* Preprocessing/vcd/file_manager.py: get_or_create_user, called once by   *)
(* each pipeline run (upload_and_run). The runs are separate processes     *)
(* that share the file user_registry.json; nothing locks it, so the steps  *)
(* of the runs interleave at every file operation. A file opened with "w"  *)
(* is empty from the open until the dump is written.                       *)
(***************************************************************************)
MaxRuns == 2    \* pipeline runs that execute concurrently

Runs == 1..MaxRuns

NoFile == [exists |-> FALSE, content |-> <<>>]

InitUsers ==
    /\ pc = "users"
    /\ registry \in {NoFile, [exists |-> TRUE, content |-> <<1>>], [exists |-> TRUE, content |-> <<2>>]}
    /\ user_pc = [p \in Runs |-> "start"]
    /\ user_registry = [p \in Runs |-> 0]
    /\ user_ids = <<>>
    /\ NormIdle
    /\ TableIdle
    /\ GraphIdle
    /\ SysIdle
    /\ ScanIdle
    /\ MergeIdle

UserRest ==
    UNCHANGED <<pc, normVars, inVars, graphVars, setupVars, outVars, sysVars, scanVars, mergeVars>>

\* `if not os.path.exists(registry_path):`
CheckRegistry(p) ==
    /\ user_pc[p] = "start"
    /\ user_pc' = [user_pc EXCEPT ![p] = IF registry.exists THEN "read" ELSE "create"]
    /\ UNCHANGED <<registry, user_registry, user_ids>>
    /\ UserRest

\* `with open(registry_path, "w") as f:` of the missing registry
CreateRegistry(p) ==
    /\ user_pc[p] = "create"
    /\ registry' = [exists |-> TRUE, content |-> <<>>]
    /\ user_pc' = [user_pc EXCEPT ![p] = "dump_first"]
    /\ UNCHANGED <<user_registry, user_ids>>
    /\ UserRest

\* json.dump({"next_user_id": 1}, f, indent=4), written when the file closes
DumpFirst(p) ==
    /\ user_pc[p] = "dump_first"
    /\ registry' = [exists |-> TRUE, content |-> <<1>>]
    /\ user_pc' = [user_pc EXCEPT ![p] = "read"]
    /\ UNCHANGED <<user_registry, user_ids>>
    /\ UserRest

\* registry = json.load(f), user_id = registry["next_user_id"]
ReadRegistry(p) ==
    /\ user_pc[p] = "read"
    /\ registry.content # <<>>
    /\ user_registry' = [user_registry EXCEPT ![p] = registry.content[1]]
    /\ user_pc' = [user_pc EXCEPT ![p] = "write"]
    /\ UNCHANGED <<registry, user_ids>>
    /\ UserRest

\* json.load(f) of a file another run has opened for writing: JSONDecodeError
ReadEmptyRaises(p) ==
    /\ user_pc[p] = "read"
    /\ registry.content = <<>>
    /\ user_pc' = [user_pc EXCEPT ![p] = "raised"]
    /\ UNCHANGED <<registry, user_registry, user_ids>>
    /\ UserRest

\* registry["next_user_id"] += 1 and `with open(registry_path, "w") as f:`
OpenRegistry(p) ==
    /\ user_pc[p] = "write"
    /\ registry' = [exists |-> TRUE, content |-> <<>>]
    /\ user_pc' = [user_pc EXCEPT ![p] = "dump"]
    /\ UNCHANGED <<user_registry, user_ids>>
    /\ UserRest

\* json.dump(registry, f, indent=4), written when the file closes
DumpRegistry(p) ==
    /\ user_pc[p] = "dump"
    /\ registry' = [exists |-> TRUE, content |-> <<user_registry[p] + 1>>]
    /\ user_pc' = [user_pc EXCEPT ![p] = "return"]
    /\ UNCHANGED <<user_registry, user_ids>>
    /\ UserRest

\* return user_id
ReturnUserId(p) ==
    /\ user_pc[p] = "return"
    /\ user_ids' = Append(user_ids, <<p, user_registry[p]>>)
    /\ user_pc' = [user_pc EXCEPT ![p] = "done"]
    /\ UNCHANGED <<registry, user_registry>>
    /\ UserRest

NextUsers ==
    \E p \in Runs :
        \/ CheckRegistry(p)
        \/ CreateRegistry(p)
        \/ DumpFirst(p)
        \/ ReadRegistry(p)
        \/ ReadEmptyRaises(p)
        \/ OpenRegistry(p)
        \/ DumpRegistry(p)
        \/ ReturnUserId(p)

SpecUsers == InitUsers /\ [][NextUsers]_vars

\* no run is inside get_or_create_user
Quiet == \A p \in Runs : user_pc[p] \in {"start", "done"}

\* C30: no two invocations of get_or_create_user return the same user id: the
\* ids returned increase strictly, and once the invocations have returned the
\* registry's next_user_id is one more than the last id returned -- also
\* when two runs read and write the registry file concurrently.
C30_UniqueUserIds ==
    /\ \A i \in 1..Len(user_ids) : \A j \in 1..Len(user_ids) :
          i < j => user_ids[i][2] < user_ids[j][2]
    /\ (Quiet /\ user_ids # <<>>) => registry.content = <<user_ids[Len(user_ids)][2] + 1>>

====
